---------------------------- MODULE Spec2Model ----------------------------
(***************************************************************************)
(* Model of the voxel ray tracer: Block::ray_intersect (block.rs), the     *)
(* recursive tracer trace_ray_multi_light (snell.rs), the texture store    *)
(* (textures.rs) and the per-pixel frame loop of main (main.rs).           *)
(*                                                                         *)
(* Numbers.  f32 values are modelled by integers:                          *)
(*   - positions and distances in units of half of EPSILON (0.5e-4 world   *)
(*     units), so 1.0 is U = 20000 position units;                         *)
(*   - colours, weights, uv coordinates and direction components in       *)
(*     thousandths (fixed point, 1.0 is FX = 1000), rounded to nearest;    *)
(*   - the IEEE specials by the sentinels Inf, -Inf and NaN, with the IEEE *)
(*     rules for 0 * inf, inf - inf and comparisons against NaN.           *)
(***************************************************************************)
EXTENDS Integers, Sequences, FiniteSets, TLC

VARIABLES
    mode,           \* which entry point is being exercised: "isect", "trace",
                    \* "render", "textures", "camera", "scene", "line", "events"
    \* ---- Block::ray_intersect on one block ----
    blk,            \* the block under test
    ray,            \* [origin, dir, tiny]
    hit,            \* the Intersect it returned, or NoCall
    \* ---- trace_ray_multi_light ----
    scene,          \* &[Block]
    lights,         \* &[Light]
    cpu_textures,   \* TextureManager.cpu_textures: path -> CpuTexture
    max_depth,      \* the max_depth argument
    root,           \* arguments of the outermost call: [origin, dir, depth]
    stack,          \* call stack of trace_ray_multi_light, outermost first
    result,         \* the colour the outermost call returned, or NoColor
    calls,          \* invocations of trace_ray_multi_light so far
    tests,          \* Block::ray_intersect evaluations so far
    \* ---- main's frame loop ----
    main_pc,        \* position of main within its frame loop
    camera,         \* [pos, yaw, pitch]: camera_pos, camera_yaw, camera_pitch
    prev_camera,    \* the camera of the previous frame
    frame,          \* frames completed
    pixel,          \* index of the pixel being rendered (row-major)
    light_ix,       \* index of the light whose trace_ray call is outstanding
    acc,            \* main.rs `final_color` accumulator of the current pixel
    fb,             \* Framebuffer.pixel_buffer
    prev_fb,        \* pixel_buffer as presented at the end of the previous frame
    tracer,         \* per pixel, the thread that ran its trace_ray calls
    writes,         \* per pixel, set_pixel calls in the current frame
    writer,         \* per pixel, the thread that called set_pixel for it
    \* ---- TextureManager ----
    gpu_textures,   \* TextureManager.gpu_textures: path -> Texture2D
    files,          \* the image files on disk: path -> the Image it decodes to, or None
    tm_call,        \* the last TextureManager call: its arguments, its result, and
                    \* the maps and the outcomes of earlier loads as they were before it
    \* ---- camera.rs, scene.rs, framebuffer.rs, events.rs ----
    orbit_cam,      \* the Camera of camera.rs, or << >> before Camera::new
    cam_call,       \* the last Camera call, its result, and whether the camera was
                    \* created or modified since the is_changed call before it
    block_list,     \* the Vec<Block> that scene.rs builds
    list_call,      \* the last replace_block call and the list as it was before it
    pixel_buffer,   \* the pixel buffer of the Framebuffer of framebuffer.rs
    bresenham,      \* the locals of draw_line_fast and its position
    ev_camera,      \* [pos, yaw, pitch] as handle_camera_input is handed them
    ev_call         \* the last call of handle_camera_input

vars == << mode, blk, ray, hit, scene, lights, cpu_textures, max_depth, root, stack,
           result, calls, tests, main_pc, camera, prev_camera, frame, pixel, light_ix,
           acc, fb, prev_fb, tracer, writes, writer, gpu_textures, files, tm_call,
           orbit_cam, cam_call, block_list, list_call, pixel_buffer, bresenham,
           ev_camera, ev_call >>

isectVars == << blk, ray, hit >>
traceVars == << root, stack, result, calls, tests >>
worldVars == << scene, lights, cpu_textures, max_depth >>
frameVars == << main_pc, camera, prev_camera, frame, pixel, light_ix, acc, fb, prev_fb,
               tracer, writes, writer >>
\* everything a step of trace_ray_multi_light leaves alone
textureVars == << gpu_textures, files, tm_call >>
\* the state of the modules outside the rendering pipeline
auxVars == << orbit_cam, cam_call, block_list, list_call, pixel_buffer, bresenham,
             ev_camera, ev_call >>
outsideTrace == << mode, isectVars, worldVars, frameVars, textureVars, auxVars >>

---------------------------------------------------------------------------
(* Number encoding *)

\* position units per 1.0: one position unit is half of EPSILON = 1e-4
U == 20000
\* fixed-point units per 1.0 for colours, weights, uv and direction components
FX == 1000
\* f32::INFINITY
Inf == 1000000000
\* f32::NAN (a value no comparison accepts)
NaN == Inf + Inf

\* the one element of a singleton set.  Once({ e(x) : x \in {a} }) is e(a) with
\* the operand a evaluated a single time, however often e uses it
Once(S) == CHOOSE v \in S : TRUE

Abs(a_) == Once({ IF a < 0 THEN -a ELSE a : a \in {a_} })
Sign(a_) == Once({ IF a < 0 THEN -1 ELSE IF a > 0 THEN 1 ELSE 0 : a \in {a_} })
Min2(a_, b_) == Once({ IF a < b THEN a ELSE b : a \in {a_}, b \in {b_} })
Max2(a_, b_) == Once({ IF a > b THEN a ELSE b : a \in {a_}, b \in {b_} })

IsNaN(a) == a = NaN
IsFinite(a_) == Once({ a # NaN /\ a # Inf /\ a # -Inf : a \in {a_} })

\* a / b rounded to the nearest integer, b # 0 (f32 rounds to nearest)
RoundDiv(a_, b_) ==
    Once({ Sign(a) * Sign(b) * ((2 * Abs(a) + Abs(b)) \div (2 * Abs(b))) :
           a \in {a_}, b \in {b_} })

\* fixed-point product and quotient of two FX-scaled numbers
FxMul(a, b) == RoundDiv(a * b, FX)
FxDiv(a, b) == RoundDiv(a * FX, b)

\* IEEE comparisons: any comparison with NaN is false
FGt(a_, b_) == Once({ ~IsNaN(a) /\ ~IsNaN(b) /\ a > b : a \in {a_}, b \in {b_} })
FLt(a_, b_) == Once({ ~IsNaN(a) /\ ~IsNaN(b) /\ a < b : a \in {a_}, b \in {b_} })
FGe(a_, b_) == Once({ ~IsNaN(a) /\ ~IsNaN(b) /\ a >= b : a \in {a_}, b \in {b_} })

\* IEEE sum of two extended numbers
FAdd(a_, b_) ==
    Once({ IF IsNaN(a) \/ IsNaN(b) THEN NaN
           ELSE IF a = Inf THEN (IF b = -Inf THEN NaN ELSE Inf)
           ELSE IF a = -Inf THEN (IF b = Inf THEN NaN ELSE -Inf)
           ELSE IF b = Inf \/ b = -Inf THEN b
           ELSE a + b : a \in {a_}, b \in {b_} })

\* f32::clamp(lo, hi) of an extended number: NaN stays NaN
FClamp(a_, lo, hi) ==
    Once({ IF IsNaN(a) THEN NaN ELSE IF a < lo THEN lo ELSE IF a > hi THEN hi ELSE a :
           a \in {a_} })

RECURSIVE SqrtSearch(_, _, _)
SqrtSearch(n_, lo_, hi_) ==
    Once({ IF lo >= hi THEN lo
           ELSE Once({ IF mid * mid <= n THEN SqrtSearch(n, mid, hi)
                       ELSE SqrtSearch(n, lo, mid - 1) :
                       mid \in {(lo + hi + 1) \div 2} }) :
           n \in {n_}, lo \in {lo_}, hi \in {hi_} })

\* floor of the square root of n >= 0
ISqrt(n) == SqrtSearch(n, 0, 46340)

\* square root of an FX-scaled number
FxSqrt(a) == ISqrt(a * FX)

---------------------------------------------------------------------------
(* Vector3 *)

Vec(x, y, z) == << x, y, z >>
Zero3 == << 0, 0, 0 >>
One3 == << FX, FX, FX >>
Axes == 1..3

VAdd(a_, b_) == Once({ [i \in Axes |-> a[i] + b[i]] : a \in {a_}, b \in {b_} })
VSub(a_, b_) == Once({ [i \in Axes |-> a[i] - b[i]] : a \in {a_}, b \in {b_} })
VNeg(a_) == Once({ [i \in Axes |-> -a[i]] : a \in {a_} })
\* vector times an FX-scaled scalar
VScale(a_, s_) == Once({ [i \in Axes |-> FxMul(a[i], s)] : a \in {a_}, s \in {s_} })
\* component-wise product of two FX-scaled vectors
VMul(a_, b_) == Once({ [i \in Axes |-> FxMul(a[i], b[i])] : a \in {a_}, b \in {b_} })
\* dot product of two FX-scaled vectors
Dot(a_, b_) ==
    Once({ RoundDiv(a[1] * b[1] + a[2] * b[2] + a[3] * b[3], FX) :
           a \in {a_}, b \in {b_} })

\* Vector3::length, in the units of the components; large components are
\* scaled down before squaring to stay within the integer range
Length(a_) ==
    Once({ LET m == Max2(Abs(a[1]), Max2(Abs(a[2]), Abs(a[3])))
               k == IF m > 20000 THEN 10 ELSE 1
               s == [i \in Axes |-> RoundDiv(a[i], k)]
           IN  k * ISqrt(s[1] * s[1] + s[2] * s[2] + s[3] * s[3]) : a \in {a_} })

\* Vector3::normalized: the zero vector is returned unchanged (length 0 is
\* replaced by 1); the result is FX-scaled
Normalized(a_) ==
    Once({ IF len = 0 THEN a ELSE [i \in Axes |-> RoundDiv(a[i] * FX, len)] :
           <<a, len>> \in { <<a, Length(a)>> : a \in {a_} } })

---------------------------------------------------------------------------
(* material.rs, light.rs, ray_intersect.rs: the records *)

\* Option<T>: None is the empty sequence, Some(x) the sequence of x alone
None == << >>
Some(x) == << x >>
IsSome(o) == Len(o) = 1
Unwrap(o) == o[1]

\* Material::new
Material(diffuse, albedo, specular, reflectivity, transparency, ior, texture) ==
    [ diffuse |-> diffuse, albedo |-> albedo, specular |-> specular,
      reflectivity |-> reflectivity, transparency |-> transparency,
      refractive_index |-> ior, texture |-> texture ]

\* Light::new
Light(position, color, intensity) ==
    [ position |-> position, color |-> color, intensity |-> intensity ]

\* Block::new
Block(position, size, material) ==
    [ position |-> position, size |-> size, material |-> material,
      emission |-> None ]

\* Block::new_emissive
BlockEmissive(position, size, material, color, intensity) ==
    [ position |-> position, size |-> size, material |-> material,
      emission |-> Some(Light(position, color, intensity)) ]

\* Intersect::new
IntersectNew(material, distance, normal, point, u, v) ==
    [ material |-> Some(material), distance |-> distance, is_intersecting |-> TRUE,
      normal |-> normal, point |-> point, u |-> u, v |-> v ]

\* Intersect::empty
IntersectEmpty ==
    [ material |-> None, distance |-> Inf, is_intersecting |-> FALSE,
      normal |-> Zero3, point |-> Zero3, u |-> 0, v |-> 0 ]

---------------------------------------------------------------------------
(* block.rs: Block::ray_intersect and Block::calc_uv *)

\* `epsilon` = 1e-4 of the face test, in position units of 0.5e-4
FaceEpsilon == 2

\* the threshold 1e-8 in the units of a `tiny` direction
TinyOne == FX \div 4

\* dir.abs() > 1e-8.  A direction is FX-scaled, so every non-zero component
\* exceeds 1e-8.  A `tiny` direction stands for the same numbers scaled down
\* to the order of 1e-8 (TinyOne is 1e-8, and its distances are scaled up by
\* the same factor), so only components beyond TinyOne exceed 1e-8.
DirBig(d, tiny) == IF tiny THEN Abs(d) > TinyOne ELSE d # 0

\* (bound - origin) * inv, with inv = 1.0 / d, or f32::INFINITY for a
\* near-zero d: 0 * inf is NaN
TimesInv(a_, d_, tiny) ==
    Once({ IF DirBig(d, tiny) THEN RoundDiv(a * FX, d)
           ELSE IF a > 0 THEN Inf ELSE IF a < 0 THEN -Inf ELSE NaN :
           a \in {a_}, d \in {d_} })

\* one component of dir * distance
DirTimes(d_, t_) ==
    Once({ IF IsNaN(t) THEN NaN
           ELSE IF t = Inf \/ t = -Inf
                THEN (IF d = 0 THEN NaN ELSE Sign(d) * Sign(t) * Inf)
           ELSE RoundDiv(d * t, FX) : d \in {d_}, t \in {t_} })

\* *origin + *dir * distance
PointAt(origin_, dir_, t_) ==
    Once({ [i \in Axes |-> FAdd(origin[i], DirTimes(dir[i], t))] :
           origin \in {origin_}, dir \in {dir_}, t \in {t_} })

BlockMin(b_) == Once({ [i \in Axes |-> b.position[i] - b.size \div 2] : b \in {b_} })
BlockMax(b_) == Once({ [i \in Axes |-> b.position[i] + b.size \div 2] : b \in {b_} })

\* (p - plane).abs() < epsilon
NearPlane(p_, plane) == Once({ IsFinite(p) /\ Abs(p - plane) < FaceEpsilon : p \in {p_} })

\* the chain with the normals of the two Z faces exchanged
FaceNormalZSwapped(point_, min_, max_) ==
    Once({ IF NearPlane(point[1], min[1]) THEN Vec(-FX, 0, 0)
           ELSE IF NearPlane(point[1], max[1]) THEN Vec(FX, 0, 0)
           ELSE IF NearPlane(point[2], min[2]) THEN Vec(0, -FX, 0)
           ELSE IF NearPlane(point[2], max[2]) THEN Vec(0, FX, 0)
           ELSE IF NearPlane(point[3], min[3]) THEN Vec(0, 0, FX)
           ELSE IF NearPlane(point[3], max[3]) THEN Vec(0, 0, -FX)
           ELSE Zero3 : point \in {point_}, min \in {min_}, max \in {max_} })

\* the if / else-if chain over the six face planes, -X +X -Y +Y -Z +Z
FaceNormal(point_, min_, max_) ==
    Once({ IF NearPlane(point[1], min[1]) THEN Vec(-FX, 0, 0)
           ELSE IF NearPlane(point[1], max[1]) THEN Vec(FX, 0, 0)
           ELSE IF NearPlane(point[2], min[2]) THEN Vec(0, -FX, 0)
           ELSE IF NearPlane(point[2], max[2]) THEN Vec(0, FX, 0)
           ELSE IF NearPlane(point[3], min[3]) THEN Vec(0, 0, -FX)
           ELSE IF NearPlane(point[3], max[3]) THEN Vec(0, 0, FX)
           ELSE Zero3 : point \in {point_}, min \in {min_}, max \in {max_} })

\* 1.0 - x on an extended number
OneMinus(x_) ==
    Once({ IF IsNaN(x) THEN NaN
           ELSE IF x = Inf THEN -Inf
           ELSE IF x = -Inf THEN Inf
           ELSE FX - x : x \in {x_} })

\* (local + half) / self.size: the position of `p` within the block along one
\* axis, FX-scaled
LocalCoord(b, p_, i) ==
    Once({ IF IsFinite(p[i])
           THEN RoundDiv((p[i] - b.position[i] + b.size \div 2) * FX, b.size)
           ELSE p[i] : p \in {p_} })

\* the value the ±X branch returns
UvFaceX(lx, ly, lz) == << FClamp(lz, 0, FX), OneMinus(FClamp(ly, 0, FX)) >>

\* the value the ±Y branch returns
UvFaceY(lx, ly, lz, ny) ==
    << FClamp(lx, 0, FX), FClamp(IF ny > 0 THEN lz ELSE OneMinus(lz), 0, FX) >>

\* the value the ±Z (and default) branch returns
UvFaceZ(lx, ly, lz, nz) ==
    << FClamp(IF nz > 0 THEN OneMinus(lx) ELSE lx, 0, FX),
       OneMinus(FClamp(ly, 0, FX)) >>

\* Block::calc_uv
CalcUv(b_, point_, normal_) ==
    Once({ IF Abs(normal[1]) * 10 > 9 * FX THEN UvFaceX(lx, ly, lz)
           ELSE IF Abs(normal[2]) * 10 > 9 * FX THEN UvFaceY(lx, ly, lz, normal[2])
           ELSE UvFaceZ(lx, ly, lz, normal[3]) :
           <<normal, lx, ly, lz>> \in
               { <<normal, LocalCoord(b, point, 1), LocalCoord(b, point, 2),
                   LocalCoord(b, point, 3)>> :
                 b \in {b_}, point \in {point_}, normal \in {normal_} } })

\* `if tmin < 0.0 && tmax < 0.0 { return Intersect::empty(); }`
BoxBehind(tmin, tmax) == FLt(tmin, 0) /\ FLt(tmax, 0)

\* the entry parameter reported even when it is negative
HitDistanceEntry(tmin_, tmax) == tmin_

\* `let distance = if tmin >= 0.0 { tmin } else { tmax };`
HitDistance(tmin_, tmax) == Once({ IF FGe(tmin, 0) THEN tmin ELSE tmax : tmin \in {tmin_} })

\* the entry and exit parameters of one axis, swapped into order:
\* `if tmin > tmax { std::mem::swap(&mut tmin, &mut tmax); }`
Ordered(t1_, t2_) ==
    Once({ IF FGt(t1, t2) THEN [lo |-> t2, hi |-> t1] ELSE [lo |-> t1, hi |-> t2] :
           t1 \in {t1_}, t2 \in {t2_} })

\* the slab of axis n: (min - origin) * inv and (max - origin) * inv, ordered
Slab(b, origin, dir, tiny, n) ==
    Ordered(TimesInv(BlockMin(b)[n] - origin[n], dir[n], tiny),
            TimesInv(BlockMax(b)[n] - origin[n], dir[n], tiny))

\* the running interval `prev` intersected with the slab `s` of a further
\* axis; miss is set where the code returns Intersect::empty()
Narrow(prev_, s_) ==
    Once({ IF prev.miss THEN prev
           ELSE IF FGt(prev.tmin, s.hi) \/ FGt(s.lo, prev.tmax)
                THEN [prev EXCEPT !.miss = TRUE]
           ELSE [ miss |-> FALSE,
                  tmin |-> IF FGt(s.lo, prev.tmin) THEN s.lo ELSE prev.tmin,
                  tmax |-> IF FLt(s.hi, prev.tmax) THEN s.hi ELSE prev.tmax ] :
           prev \in {prev_}, s \in {s_} })

\* the x slab as the first running interval (it is never tested alone)
FirstSlab(s_) == Once({ [miss |-> FALSE, tmin |-> s.lo, tmax |-> s.hi] : s \in {s_} })

\* the running [tmin, tmax] after the x, y and z slabs
Slabs(b, origin, dir, tiny) ==
    Narrow(Narrow(FirstSlab(Slab(b, origin, dir, tiny, 1)),
                  Slab(b, origin, dir, tiny, 2)),
           Slab(b, origin, dir, tiny, 3))

\* the Intersect of a hit at `point`: normal from the face planes, uv from
\* calc_uv
HitAtPoint(b, distance, point_) ==
    Once({ IntersectNew(b.material, distance, normal, point, uv[1], uv[2]) :
           <<point, normal, uv>> \in
               { <<point, normal, CalcUv(b, point, normal)>> :
                 <<point, normal>> \in
                     { <<point, FaceNormal(point, BlockMin(b), BlockMax(b))>> :
                       point \in {point_} } } })

\* the Intersect of a hit at parameter `distance` along the ray
HitAtDistance(b, origin, dir, distance_) ==
    Once({ HitAtPoint(b, distance, PointAt(origin, dir, distance)) :
           distance \in {distance_} })

\* Block::ray_intersect
BlockRayIntersect(b_, origin_, dir_, tiny) ==
    Once({ IF tt.miss THEN IntersectEmpty
           ELSE IF BoxBehind(tt.tmin, tt.tmax) THEN IntersectEmpty
           ELSE HitAtDistance(b, origin, dir, HitDistance(tt.tmin, tt.tmax)) :
           <<b, origin, dir, tt>> \in
               { <<b, origin, dir, Slabs(b, origin, dir, tiny)>> :
                 b \in {b_}, origin \in {origin_}, dir \in {dir_} } })

---------------------------------------------------------------------------
(* textures.rs: CpuTexture and TextureManager sampling *)

\* CpuTexture::get_pixel_clamped; pixels are stored row-major from index 1
GetPixelClamped(tex, x_, y_) ==
    Once({ IF idx \in DOMAIN tex.pixels THEN tex.pixels[idx] ELSE One3 :
           idx \in { Max2(0, Min2(y, tex.height - 1)) * tex.width
                       + Max2(0, Min2(x, tex.width - 1)) + 1 :
                     x \in {x_}, y \in {y_} } })

\* a + (b - a) * f on FX-scaled colours
Lerp(a_, b_, f) == Once({ VAdd(a, VScale(VSub(b, a), f)) : a \in {a_}, b \in {b_} })

\* the upper neighbour taken without the `.min(width - 1)`
UpperTexelUnbounded(x0, size) == x0 + 1

\* `(x0 + 1).min(self.width - 1)`
UpperTexel(x0, size) == Min2(x0 + 1, size - 1)

\* the integer and fractional parts of the FX-scaled texel coordinates (x, y)
\* and the upper neighbours
Corners(tex, x, y) ==
    [ x0 |-> x \div FX, y0 |-> y \div FX,
      x1 |-> UpperTexel(x \div FX, tex.width),
      y1 |-> UpperTexel(y \div FX, tex.height),
      fx |-> x - (x \div FX) * FX, fy |-> y - (y \div FX) * FX ]

\* the four texels around (x, y), in FX-scaled texel coordinates, blended by
\* the fractional parts
Bilinear(tex, x_, y_) ==
    Once({ Lerp(Lerp(GetPixelClamped(tex, p.x0, p.y0),
                     GetPixelClamped(tex, p.x1, p.y0), p.fx),
                Lerp(GetPixelClamped(tex, p.x0, p.y1),
                     GetPixelClamped(tex, p.x1, p.y1), p.fx), p.fy) :
           p \in { Corners(tex, x, y) : x \in {x_}, y \in {y_} } })

\* CpuTexture::sample_bilinear
SampleBilinear(tex, u_, v_) ==
    Once({ IF IsNaN(u) \/ IsNaN(v) THEN << NaN, NaN, NaN >>
           ELSE Bilinear(tex, FClamp(u, 0, FX) * (tex.width - 1),
                         FClamp(v, 0, FX) * (tex.height - 1)) :
           u \in {u_}, v \in {v_} })

\* a fallback of black for a path that is not loaded
SampleTextureBlack(path, u, v) ==
    IF path \in DOMAIN cpu_textures
    THEN SampleBilinear(cpu_textures[path], u, v)
    ELSE Zero3

\* TextureManager::sample_texture: white for a path that is not loaded
SampleTexture(path, u, v) ==
    IF path \in DOMAIN cpu_textures
    THEN SampleBilinear(cpu_textures[path], u, v)
    ELSE One3

\* CpuTexture::sample_normal: the texel remapped to [-1, 1] on x and y, z kept
\* non-negative, normalised
SampleNormal(tex, u, v) ==
    Once({ IF IsNaN(color[1]) THEN color
           ELSE Normalized(Vec(2 * color[1] - FX, 2 * color[2] - FX,
                               Max2(color[3], 0))) :
           color \in {SampleBilinear(tex, u, v)} })

\* TextureManager::sample_normal_map: (0, 0, 1) for a path that is not loaded
SampleNormalMap(path, u, v) ==
    IF path \in DOMAIN cpu_textures
    THEN SampleNormal(cpu_textures[path], u, v)
    ELSE Vec(0, 0, FX)

\* CpuTexture::from_image: bytes to normalised colours, dimensions kept
FromImage(image) ==
    [ width |-> image.width, height |-> image.height,
      pixels |-> [i \in DOMAIN image.data |->
                    [k \in Axes |-> RoundDiv(image.data[i][k] * FX, 255)]] ]

\* RaylibHandle::load_texture_from_image: the GPU copy of the image
TextureFromImage(image) ==
    [ width |-> image.width, height |-> image.height, data |-> image.data ]

\* HashMap::insert
Insert(map, key, value) ==
    [k \in DOMAIN map \cup {key} |-> IF k = key THEN value ELSE map[k]]

\* Result<(), String>
Ok == << "Ok" >>
Err(message, path) == << "Err", message, path >>
IsErr(r) == r[1] = "Err"

\* load_texture without the test for an entry already present
LoadTextureAgain(cpu, gpu, path, file, gpu_ok) ==
    IF ~IsSome(file)
    THEN [ result |-> Err("No se pudo cargar la imagen: ", path),
           cpu |-> cpu, gpu |-> gpu, decode_calls |-> 1 ]
    ELSE IF ~gpu_ok
    THEN [ result |-> Err("No se pudo crear la textura: ", path),
           cpu |-> cpu, gpu |-> gpu, decode_calls |-> 1 ]
    ELSE [ result |-> Ok,
           cpu |-> Insert(cpu, path, FromImage(Unwrap(file))),
           gpu |-> Insert(gpu, path, TextureFromImage(Unwrap(file))),
           decode_calls |-> 1 ]

\* load_texture with the CPU copy stored before the GPU texture is created
LoadTextureCpuFirst(cpu, gpu, path, file, gpu_ok) ==
    IF path \in DOMAIN gpu
    THEN [ result |-> Ok, cpu |-> cpu, gpu |-> gpu, decode_calls |-> 0 ]
    ELSE IF ~IsSome(file)
    THEN [ result |-> Err("No se pudo cargar la imagen: ", path),
           cpu |-> cpu, gpu |-> gpu, decode_calls |-> 1 ]
    ELSE IF ~gpu_ok
    THEN [ result |-> Err("No se pudo crear la textura: ", path),
           cpu |-> Insert(cpu, path, FromImage(Unwrap(file))),
           gpu |-> gpu, decode_calls |-> 1 ]
    ELSE [ result |-> Ok,
           cpu |-> Insert(cpu, path, FromImage(Unwrap(file))),
           gpu |-> Insert(gpu, path, TextureFromImage(Unwrap(file))),
           decode_calls |-> 1 ]

\* load_texture that stores the GPU texture alone
LoadTextureGpuOnly(cpu, gpu, path, file, gpu_ok) ==
    IF path \in DOMAIN gpu
    THEN [ result |-> Ok, cpu |-> cpu, gpu |-> gpu, decode_calls |-> 0 ]
    ELSE IF ~IsSome(file)
    THEN [ result |-> Err("No se pudo cargar la imagen: ", path),
           cpu |-> cpu, gpu |-> gpu, decode_calls |-> 1 ]
    ELSE IF ~gpu_ok
    THEN [ result |-> Err("No se pudo crear la textura: ", path),
           cpu |-> cpu, gpu |-> gpu, decode_calls |-> 1 ]
    ELSE [ result |-> Ok, cpu |-> cpu,
           gpu |-> Insert(gpu, path, TextureFromImage(Unwrap(file))),
           decode_calls |-> 1 ]

\* TextureManager::load_texture on the maps cpu and gpu.  file is what
\* Image::load_image finds at path (None: it fails), gpu_ok whether
\* load_texture_from_image succeeds; decode_calls counts Image::load_image
LoadTexture(cpu, gpu, path, file, gpu_ok) ==
    IF path \in DOMAIN gpu
    THEN [ result |-> Ok, cpu |-> cpu, gpu |-> gpu, decode_calls |-> 0 ]
    ELSE IF ~IsSome(file)
    THEN [ result |-> Err("No se pudo cargar la imagen: ", path),
           cpu |-> cpu, gpu |-> gpu, decode_calls |-> 1 ]
    ELSE IF ~gpu_ok
    THEN [ result |-> Err("No se pudo crear la textura: ", path),
           cpu |-> cpu, gpu |-> gpu, decode_calls |-> 1 ]
    ELSE [ result |-> Ok,
           cpu |-> Insert(cpu, path, FromImage(Unwrap(file))),
           gpu |-> Insert(gpu, path, TextureFromImage(Unwrap(file))),
           decode_calls |-> 1 ]

---------------------------------------------------------------------------
(* snell.rs: constants and optics *)

\* MAX_DISTANCE = 50.0, in position units
MAX_DISTANCE == 50 * U
\* EPSILON = 1e-4, in position units of 0.5e-4
EPSILON == 2
\* MIN_REFLECTION_THRESHOLD = 0.05, FX-scaled
MIN_REFLECTION_THRESHOLD == 50
\* the transparency threshold 0.05 of the refraction and blend tests, FX-scaled
MIN_TRANSPARENCY_THRESHOLD == 50
\* MIN_SPECULAR_THRESHOLD = 5.0 (specular exponents are kept as integers)
MIN_SPECULAR_THRESHOLD == 5
\* the early-termination distance 0.1, in position units
NEAR_DISTANCE == U \div 10

\* reflect: I - N * 2 * (I . N)
Reflect(incident_, normal_) ==
    Once({ VSub(incident, VScale(normal, 2 * Dot(incident, normal))) :
           incident \in {incident_}, normal \in {normal_} })

\* the refracted direction for the cosine c of the incidence angle, measured
\* against `normal`, and the two refractive indices
Snell(incident, n, cosi, etai, etat) ==
    Once({ IF p.k < 0 THEN Zero3
           ELSE VAdd(VScale(incident, p.eta),
                     VScale(n, FxMul(p.eta, cosi) - FxSqrt(p.k))) :
           p \in { [eta |-> eta,
                    k |-> FX - FxMul(FxMul(eta, eta), FX - FxMul(cosi, cosi))] :
                   eta \in {FxDiv(etai, etat)} } })

\* refract (Snell's law); the zero vector on total internal reflection
Refract(incident_, normal_, refractive_index) ==
    Once({ IF c > 0
           THEN Snell(incident, VNeg(normal), c, refractive_index, FX)
           ELSE Snell(incident, normal, -c, FX, refractive_index) :
           <<incident, normal, c>> \in
               { <<incident, normal, FClamp(Dot(incident, normal), -FX, FX)>> :
                 incident \in {incident_}, normal \in {normal_} } })

RECURSIVE FxPow(_, _)
\* x.powf(n) for an integer exponent n >= 0
FxPow(x_, n_) ==
    Once({ IF n = 0 THEN FX
           ELSE IF n % 2 = 0
                THEN Once({ FxMul(h, h) : h \in {FxPow(x, n \div 2)} })
           ELSE FxMul(x, FxPow(x, n - 1)) : x \in {x_}, n \in {n_} })

\* the Fresnel equations for a ray entering a medium of index etat from one of
\* index etai, unpolarised light
FresnelEquations(cos_i, cos_t_, etai, etat) ==
    Once({ RoundDiv(FxMul(r[1], r[1]) + FxMul(r[2], r[2]), 2) :
           r \in { << FxDiv(FxMul(etat, cos_i) - FxMul(etai, cos_t),
                            FxMul(etat, cos_i) + FxMul(etai, cos_t)),
                      FxDiv(FxMul(etai, cos_i) - FxMul(etat, cos_t),
                            FxMul(etai, cos_i) + FxMul(etat, cos_t)) >> :
                   cos_t \in {cos_t_} } })

\* calculate_fresnel
CalculateFresnel(cos_in, refractive_index) ==
    Once({ IF cos_i * 10 > 9999 THEN 40
           ELSE IF refractive_index > FX
                THEN IF sin_t_sq >= FX THEN FX
                     ELSE FresnelEquations(cos_i, FxSqrt(FX - sin_t_sq), FX,
                                           refractive_index)
           ELSE 40 + FxMul(960, FxPow(FX - cos_i, 5)) :
           <<cos_i, sin_t_sq>> \in
               { <<cos_i, FxMul(FxMul(FxDiv(FX, refractive_index),
                                     FxDiv(FX, refractive_index)),
                               FX - FxMul(cos_i, cos_i))>> :
                 cos_i \in {FClamp(cos_in, 0, FX)} } })

\* sky_color: gradient from the horizon colour to the zenith colour
SkyColor(dir) ==
    Once({ VAdd(VScale(Vec(800, 600, 400), FX - t), VScale(Vec(200, 400, 800), t)) :
           t \in {FClamp(RoundDiv(dir[2], 2) + FX \div 2, 0, FX)} })

---------------------------------------------------------------------------
(* snell.rs: intersection and shading *)

\* the `for block in scene` loop of find_closest_intersection from block i on:
\* `closest` is the hit kept so far, `tested` counts ray_intersect calls
RECURSIVE ClosestFrom(_, _, _, _, _, _, _)
ClosestFrom(origin, dir, blocks, i, closest, min_distance, tested) ==
    IF i > Len(blocks) THEN [hit |-> closest, tested |-> tested]
    ELSE Once({ IF h.is_intersecting /\ FLt(h.distance, min_distance)
                THEN IF FLt(h.distance, NEAR_DISTANCE)
                     THEN [hit |-> Some(h), tested |-> tested + 1]
                     ELSE ClosestFrom(origin, dir, blocks, i + 1, Some(h), h.distance,
                                      tested + 1)
                ELSE ClosestFrom(origin, dir, blocks, i + 1, closest, min_distance,
                                 tested + 1) :
                h \in {BlockRayIntersect(blocks[i], origin, dir, FALSE)} })

\* find_closest_intersection
FindClosestIntersection(origin_, dir_, blocks_) ==
    Once({ ClosestFrom(origin, dir, blocks, 1, None, MAX_DISTANCE, 0) :
           origin \in {origin_}, dir \in {dir_}, blocks \in {blocks_} })

\* get_material_color
GetMaterialColor(intersect) ==
    IF ~IsSome(intersect.material) THEN One3
    ELSE Once({ IF IsSome(material.texture)
                THEN VMul(material.diffuse,
                          SampleTexture(Unwrap(material.texture), intersect.u,
                                        intersect.v))
                ELSE material.diffuse : material \in {Unwrap(intersect.material)} })

\* no falloff with distance
AttenuationNone(light_distance_) == FX

\* `1.0 / (1.0 + 0.01 * light_distance * light_distance)`
Attenuation(light_distance_) ==
    Once({ FxDiv(FX, FX + RoundDiv(FxMul(light_distance, light_distance), 100)) :
           light_distance \in {light_distance_} })

\* light_dir, attenuation and diffuse_intensity of a light at a hit
LightTerms(intersect, light) ==
    Once({ [ light_dir |-> light_dir, attenuation |-> attenuation,
             diffuse_intensity |->
                 FxMul(FxMul(Max2(Dot(intersect.normal, light_dir), 0), light.intensity),
                       attenuation) ] :
           <<light_dir, attenuation>> \in
               { << Normalized(to_light),
                    Attenuation(RoundDiv(Length(to_light) * FX, U)) >> :
                 to_light \in {VSub(light.position, intersect.point)} } })

\* the Lambert term: base_color * light.color * diffuse_intensity * albedo[0]
Diffuse(material, light, base_color, terms) ==
    VScale(VScale(VMul(base_color, light.color), terms.diffuse_intensity),
           material.albedo[1])

\* the Blinn-Phong term: light.color * spec * albedo[1] * attenuation
Specular(intersect, material, light, view_dir, terms) ==
    Once({ VScale(VScale(VScale(light.color, FxPow(n_dot_h, material.specular)),
                         material.albedo[2]),
                  terms.attenuation) :
           n_dot_h \in
               { Max2(Dot(intersect.normal, half_vector), 0) :
                 half_vector \in
                     { Normalized(VAdd(terms.light_dir, Normalized(VNeg(view_dir)))) } } })

\* calculate_light_contribution
CalculateLightContribution(intersect_, light_, base_color_, view_dir_) ==
    Once({ IF ~IsSome(intersect.material) THEN Zero3
           ELSE Once({ IF /\ material.specular > MIN_SPECULAR_THRESHOLD
                          /\ terms.diffuse_intensity > 100
                       THEN VAdd(Diffuse(material, light, base_color, terms),
                                 Specular(intersect, material, light, view_dir, terms))
                       ELSE Diffuse(material, light, base_color, terms) :
                       material \in {Unwrap(intersect.material)},
                       terms \in {LightTerms(intersect, light)} }) :
           intersect \in {intersect_}, light \in {light_},
           base_color \in {base_color_}, view_dir \in {view_dir_} })

RECURSIVE SumLights(_, _, _, _, _)
\* the `for light in lights` accumulation of trace_ray_multi_light
SumLights(intersect, ls, base_color, view_dir, i) ==
    IF i > Len(ls) THEN Zero3
    ELSE VAdd(CalculateLightContribution(intersect, ls[i], base_color, view_dir),
              SumLights(intersect, ls, base_color, view_dir, i + 1))

\* the contributions summed and not divided
AverageOverLightsSum(sum_, ls) == sum_

\* `final_color / lights.len()`, skipped for an empty light list
AverageOverLights(sum_, ls) ==
    Once({ IF Len(ls) # 0 THEN [i \in Axes |-> RoundDiv(sum[i], Len(ls))] ELSE sum :
           sum \in {sum_} })

\* the ambient term: base_color * 0.1
Ambient(base_color) == VScale(base_color, 100)

\* the direct shading of a hit: averaged light contributions plus ambient
DirectShading(intersect_, ls_, view_dir_) ==
    Once({ VAdd(AverageOverLights(SumLights(intersect, ls, base_color, view_dir, 1), ls),
                Ambient(base_color)) :
           <<intersect, ls, view_dir, base_color>> \in
               { <<intersect, ls, view_dir, GetMaterialColor(intersect)>> :
                 intersect \in {intersect_}, ls \in {ls_}, view_dir \in {view_dir_} } })

---------------------------------------------------------------------------
(* snell.rs: trace_ray_multi_light as a call stack *)

\* the depth cutoff taken one level too late
DepthExceededLate(depth) == depth > max_depth + 1

\* `if depth > max_depth { return sky_color(&dir); }`
DepthExceeded(depth) == depth > max_depth

\* the budget test that admits a recursive call at depth = max_depth
HasBudgetInclusive(depth) == depth <= max_depth

\* `depth < max_depth`, the budget test of both recursive branches
HasBudget(depth) == depth < max_depth

\* the depth argument of a recursive call: depth + 1
ChildDepth(depth) == depth + 1

\* `material.reflectivity > MIN_REFLECTION_THRESHOLD && depth < max_depth`
WantsReflection(material, depth) ==
    material.reflectivity > MIN_REFLECTION_THRESHOLD /\ HasBudget(depth)

\* `material.transparency > 0.05 && depth < max_depth`
WantsRefraction(material, depth) ==
    material.transparency > MIN_TRANSPARENCY_THRESHOLD /\ HasBudget(depth)

\* `refracted_dir.dot(refracted_dir) > 0.01`
RefractionValid(refracted_dir) == Dot(refracted_dir, refracted_dir) > 10

\* intersect.point + intersect.normal * EPSILON
ReflectionOrigin(intersect) ==
    [i \in Axes |-> intersect.point[i] + RoundDiv(intersect.normal[i] * EPSILON, FX)]

\* intersect.point - intersect.normal * EPSILON
RefractionOrigin(intersect) ==
    [i \in Axes |-> intersect.point[i] - RoundDiv(intersect.normal[i] * EPSILON, FX)]

\* the reflection ray sent on along the incident direction
ReflectedDirStraight(dir, intersect) == dir

\* reflect(&dir, &intersect.normal).normalized()
ReflectedDir(dir, intersect) == Normalized(Reflect(dir, intersect.normal))

\* refract(&dir, &intersect.normal, material.refractive_index)
RefractedDir(dir, intersect) ==
    Refract(dir, intersect.normal, Unwrap(intersect.material).refractive_index)

\* the Fresnel factor set after a refraction ray was traced
FresnelAt(dir, intersect) ==
    CalculateFresnel(Abs(-Dot(dir, intersect.normal)),
                     Unwrap(intersect.material).refractive_index)

\* the coefficients the final combination applies to the direct, reflected
\* and refracted colours
BlendWeights(material, fresnel_factor) ==
    IF material.transparency > MIN_TRANSPARENCY_THRESHOLD
    THEN Once({ [ direct |-> FX - transparency,
                  reflected |-> reflectivity,
                  refracted |-> FxMul(transparency, FX - reflectivity) ] :
                transparency \in {material.transparency},
                reflectivity \in {Max2(material.reflectivity, fresnel_factor)} })
    ELSE IF material.reflectivity > MIN_REFLECTION_THRESHOLD
    THEN [ direct |-> FX - material.reflectivity,
           reflected |-> material.reflectivity,
           refracted |-> 0 ]
    ELSE [ direct |-> FX, reflected |-> 0, refracted |-> 0 ]

\* the combination of the three colours by the material's properties
Blend(material, final_color, reflection_color, refraction_color, fresnel_factor) ==
    Once({ VAdd(VAdd(VScale(final_color, w.direct),
                     VScale(refraction_color, w.refracted)),
                VScale(reflection_color, w.reflected)) :
           w \in {BlendWeights(material, fresnel_factor)} })

\* the return without the final clamp
ClampColorMissing(c_) == c_

\* the final clamp of every channel to [0, 1]
ClampColor(c_) == Once({ [i \in Axes |-> FClamp(c[i], 0, FX)] : c \in {c_} })

\* a fresh activation of trace_ray_multi_light
Frame(origin, dir, depth) ==
    [ origin |-> origin, dir |-> dir, depth |-> depth, pc |-> "enter",
      intersect |-> IntersectEmpty, final_color |-> Zero3,
      reflection_color |-> Zero3, refraction_color |-> Zero3,
      fresnel_factor |-> 0, children |-> 0 ]

Top == stack[Len(stack)]
Caller == stack[Len(stack) - 1]

\* the stack with its top activation replaced
WithTop(f) == [stack EXCEPT ![Len(stack)] = f]

\* the caller resumed with the colour its recursive call returned
Resumed(f, color) ==
    IF f.pc = "await_reflect"
    THEN [f EXCEPT !.reflection_color = color, !.pc = "refract"]
    ELSE [f EXCEPT !.refraction_color = color,
                   !.fresnel_factor = FresnelAt(f.dir, f.intersect),
                   !.pc = "combine"]

\* `return color`: pop the activation and hand the colour to the caller, or
\* to the outside when the outermost call returns
Return(color_) ==
    \E color \in {color_} :
        IF Len(stack) = 1
        THEN /\ stack' = << >>
             /\ result' = Some(color)
        ELSE /\ stack' = [SubSeq(stack, 1, Len(stack) - 1)
                            EXCEPT ![Len(stack) - 1] = Resumed(Caller, color)]
             /\ result' = result

\* a recursive call: the caller waits at `waiting`, the callee is pushed
Call(waiting, origin, dir) ==
    /\ stack' = Append(WithTop([Top EXCEPT !.pc = waiting,
                                           !.children = Top.children + 1]),
                       Frame(origin, dir, ChildDepth(Top.depth)))
    /\ calls' = calls + 1

\* lines 157-197: depth cutoff, nearest hit, direct shading
TraceEnter ==
    /\ stack # << >>
    /\ Top.pc = "enter"
    /\ IF DepthExceeded(Top.depth)
       THEN /\ Return(SkyColor(Top.dir))
            /\ tests' = tests
       ELSE \E found \in {FindClosestIntersection(Top.origin, Top.dir, scene)} :
                /\ tests' = tests + found.tested
                /\ IF ~IsSome(found.hit) THEN Return(SkyColor(Top.dir))
                   ELSE IF ~IsSome(Unwrap(found.hit).material)
                        THEN Return(SkyColor(Top.dir))
                   ELSE /\ stack' = WithTop(
                               [Top EXCEPT !.intersect = Unwrap(found.hit),
                                           !.final_color =
                                               DirectShading(Unwrap(found.hit), lights,
                                                             Top.dir),
                                           !.pc = "reflect"])
                        /\ result' = result
    /\ UNCHANGED << calls, root, outsideTrace >>

\* lines 205-219: the reflection ray
TraceReflect ==
    /\ stack # << >>
    /\ Top.pc = "reflect"
    /\ IF WantsReflection(Unwrap(Top.intersect.material), Top.depth)
       THEN Call("await_reflect", ReflectionOrigin(Top.intersect),
                 ReflectedDir(Top.dir, Top.intersect))
       ELSE /\ stack' = WithTop([Top EXCEPT !.pc = "refract"])
            /\ calls' = calls
    /\ UNCHANGED << result, tests, root, outsideTrace >>

\* lines 221-244: the refraction ray
TraceRefract ==
    /\ stack # << >>
    /\ Top.pc = "refract"
    /\ \E refracted_dir \in {RefractedDir(Top.dir, Top.intersect)} :
         IF /\ WantsRefraction(Unwrap(Top.intersect.material), Top.depth)
            /\ RefractionValid(refracted_dir)
         THEN Call("await_refract", RefractionOrigin(Top.intersect), refracted_dir)
         ELSE /\ stack' = WithTop([Top EXCEPT !.pc = "combine"])
              /\ calls' = calls
    /\ UNCHANGED << result, tests, root, outsideTrace >>

\* lines 246-274: blend and clamp, then return
TraceCombine ==
    /\ stack # << >>
    /\ Top.pc = "combine"
    /\ Return(ClampColor(Blend(Unwrap(Top.intersect.material), Top.final_color,
                               Top.reflection_color, Top.refraction_color,
                               Top.fresnel_factor)))
    /\ UNCHANGED << calls, tests, root, outsideTrace >>

---------------------------------------------------------------------------
(* Material presets of the repository, and the inputs of the model *)

\* block_types.rs BlockType::Sun: opaque, no specular, no texture
SunMaterial ==
    Material(Vec(1000, 1000, 800), << 1000, 0 >>, 0, 0, 0, 1000, None)

\* block_types.rs BlockType::Cobble: opaque, specular, textured
CobbleMaterial ==
    Material(Vec(600, 600, 600), << 800, 200 >>, 15, 0, 0, 1000,
             Some("textures/cobble.png"))

\* block_types.rs BlockType::Metal: reflective
MetalMaterial ==
    Material(Vec(900, 900, 950), << 100, 900 >>, 100, 800, 0, 1000, None)

\* main.rs glass_material: transparent with a little reflectivity
GlassMaterial ==
    Material(Vec(900, 900, 900), << 100, 900 >>, 200, 100, 800, 1500,
             Some("textures/glass.png"))

\* main.rs water_material: reflective and transparent
WaterMaterial ==
    Material(Vec(100, 300, 800), << 200, 800 >>, 100, 700, 300, 1330,
             Some("textures/water.png"))

\* block_types.rs BlockType::Glass: transparent, not reflective
BlockGlassMaterial ==
    Material(Vec(900, 900, 1000), << 100, 900 >>, 200, 0, 800, 1000,
             Some("textures/glass.png"))

\* Material::new with reflectivity 1.0 and transparency 0: a perfect mirror
MirrorMaterial ==
    Material(Vec(900, 900, 950), << 100, 900 >>, 100, FX, 0, 1000, None)

\* main.rs lights[0], the main light
SunLight == Light(Vec(8 * U, 10 * U, -8 * U), Vec(1000, 950, 800), 1200)
\* main.rs lights[1], the secondary light
FillLight == Light(Vec(-5 * U, 6 * U, 5 * U), Vec(700, 800, 1000), 600)
\* a white light of the main light's intensity one unit above the top face of
\* a unit block at the origin
NearLight == Light(Vec(0, U + U \div 2, 0), One3, 1200)

\* a 2x2 texture: the texels main.rs would load for the cobble path
CobbleTexture ==
    [ width |-> 2, height |-> 2,
      pixels |-> << Vec(1000, 1000, 1000), Vec(500, 500, 500),
                    Vec(200, 400, 600), Vec(0, 0, 0) >> ]

\* the texture store after load_minecraft_textures: the cobble file decoded;
\* the paths the glass and water materials name are not among those it loads
LoadedTextures == [p \in {"textures/cobble.png"} |-> CobbleTexture]

\* the greatest max_depth the model runs
MaxDepth == 2
\* direction components range over -DirSpan..DirSpan quarters
DirSpan == 2
\* the farthest ray origin, in quarters of the block size from its centre
GridSpan == 4

DirComponents == {k * (FX \div 4) : k \in -DirSpan..DirSpan}
Directions == {d \in DirComponents \X DirComponents \X DirComponents : d # Zero3}
AxisDirections ==
    { Vec(FX, 0, 0), Vec(-FX, 0, 0), Vec(0, FX, 0), Vec(0, -FX, 0),
      Vec(0, 0, FX), Vec(0, 0, -FX) }

\* blocks for the single-block intersection test: the unit cube at the
\* origin, a cube of size 2 elsewhere, and a cube no wider than the tolerance
\* of the face test
IsectBlocks ==
    { Block(Zero3, U, SunMaterial), Block(Vec(U, -2 * U, 3 * U), 2 * U, SunMaterial),
      Block(Zero3, FaceEpsilon, SunMaterial) }

\* origin coordinates relative to the block centre, in steps of a quarter of
\* its size (of one position unit for the thinnest block): outside, on a face
\* plane, strictly inside
GridCoords == {-GridSpan, -2, 0, 1, 2}
GridOrigins(b) ==
    { [i \in Axes |-> b.position[i] + c[i] * Max2(b.size \div 4, 1)] :
        c \in GridCoords \X GridCoords \X GridCoords }

\* scenes of unit blocks for the tracer
SceneEmpty == << >>
SceneOne == << Block(Zero3, U, SunMaterial) >>
SceneMirrors ==
    << Block(Zero3, U, MetalMaterial), Block(Vec(0, 3 * U, 0), U, MetalMaterial) >>
SceneGlass ==
    << Block(Zero3, U, GlassMaterial), Block(Vec(0, -2 * U, 0), U, CobbleMaterial) >>
SceneWater ==
    << Block(Vec(0, 3 * U, 0), U, SunMaterial), Block(Zero3, U, WaterMaterial) >>
\* a perfect mirror facing an opaque block above it
SceneMirror ==
    << Block(Zero3, U, MirrorMaterial), Block(Vec(0, 3 * U, 0), U, SunMaterial) >>
\* two floor blocks side by side
SceneFloor ==
    << Block(Zero3, U, SunMaterial), Block(Vec(-U, 0, 0), U, CobbleMaterial) >>
\* a pane of BlockType::Glass above an opaque block
SceneWindow ==
    << Block(Zero3, U, BlockGlassMaterial), Block(Vec(0, -2 * U, 0), U, SunMaterial) >>
\* BlockType::Sun.to_block: the emissive block
SceneSun == << BlockEmissive(Zero3, U, SunMaterial, Vec(1000, 950, 700), 5 * FX) >>
TraceScenes ==
    { SceneEmpty, SceneOne, SceneMirrors, SceneGlass, SceneWater, SceneMirror,
      SceneFloor, SceneWindow, SceneSun }

\* a dim white light straight above the block at the origin
DimLight == Light(Vec(0, 3 * U, 0), One3, 600)

TraceLights == { << >>, << NearLight >>, << SunLight, FillLight >>, << DimLight >> }

\* ray origins: between the blocks on their common axis, on the plane of
\* their -X faces, off their axis, beside the column, and just above the
\* floor next to the seam of two floor blocks
TraceOrigins ==
    { Vec(0, U + U \div 2, 0), Vec(-(U \div 2), U + U \div 2, 0),
      Vec(U \div 4, U + U \div 2, -(U \div 4)), Vec(3 * U, 0, 0),
      Vec(-(U \div 2) - 600, U \div 2 + 400, 0) }

\* ray directions: the six axis directions and two oblique unit vectors
TraceDirections == AxisDirections \cup { Vec(600, -800, 0), Vec(0, 800, -600) }

---------------------------------------------------------------------------
(* main.rs: the camera and the frame loop *)

\* the image is ImgW x ImgH pixels
ImgW == 2
ImgH == 2
\* frames rendered before the window closes
MaxFrames == 2

NumPixels == ImgW * ImgH
PixelIndices == 0..(NumPixels - 1)

\* the max_depth main passes to trace_ray
MAIN_MAX_DEPTH == 4
\* (fov / 2.0).tan() for fov = FRAC_PI_3, FX-scaled
TAN_HALF_FOV == 577
\* rotation_speed 0.015 and its shifted value 0.03, in thousandths of a radian
ROTATION_SPEED == 15
ROTATION_SPEED_SHIFT == 30
\* the pitch limit 1.4, in thousandths of a radian
PITCH_LIMIT == 1400
\* speed 0.08 and its shifted value 0.2, in position units (0.08 * U, 0.2 * U)
MOVE_SPEED == 1600
MOVE_SPEED_SHIFT == 4000

\* main.rs `lights`
MainLights == << SunLight, FillLight >>

\* a small diorama in front of the initial camera: a metal slab and a sun block
RenderScene ==
    << Block(Vec(0, 0, 0), 4 * U, MetalMaterial),
       Block(Vec(2 * U, 4 * U, 0), 2 * U, SunMaterial) >>

\* camera_pos, camera_yaw (as its offset from FRAC_PI_2) and camera_pitch
InitialCamera == [pos |-> Vec(0, 3 * U, -8 * U), yaw |-> 0, pitch |-> -300]

\* f32::sin and f32::cos of an angle in thousandths of a radian, |x| <= PI/2,
\* FX-scaled (Taylor polynomials)
Sin(x) ==
    LET x2 == FxMul(x, x)
        x3 == FxMul(x2, x)
        x5 == FxMul(x3, x2)
        x7 == FxMul(x5, x2)
    IN  x - RoundDiv(x3, 6) + RoundDiv(x5, 120) - RoundDiv(x7, 5040)

Cos(x) ==
    LET x2 == FxMul(x, x)
        x4 == FxMul(x2, x2)
        x6 == FxMul(x4, x2)
        x8 == FxMul(x4, x4)
    IN  FX - RoundDiv(x2, 2) + RoundDiv(x4, 24) - RoundDiv(x6, 720)
           + RoundDiv(x8, 40320)

\* Vector3::cross on FX-scaled vectors
Cross(a_, b_) ==
    Once({ Vec(FxMul(a[2], b[3]) - FxMul(a[3], b[2]),
               FxMul(a[3], b[1]) - FxMul(a[1], b[3]),
               FxMul(a[1], b[2]) - FxMul(a[2], b[1])) : a \in {a_}, b \in {b_} })

\* the forward vector of a yaw and a pitch; the yaw is FRAC_PI_2 + cam.yaw, so
\* its cosine is -sin(cam.yaw) and its sine cos(cam.yaw)
Forward(cam) ==
    Normalized(Vec(FxMul(-Sin(cam.yaw), Cos(cam.pitch)),
                   Sin(cam.pitch),
                   FxMul(Cos(cam.yaw), Cos(cam.pitch))))

Right(cam) == Normalized(Cross(Forward(cam), Vec(0, FX, 0)))
Up(cam) == Normalized(Cross(Right(cam), Forward(cam)))

\* a displacement of `speed` position units along an FX-scaled direction
Step(dir, speed) == [i \in Axes |-> RoundDiv(dir[i] * speed, FX)]

\* the pitch left as the keys made it
ClampPitchNone(pitch) == pitch

\* `*camera_pitch = camera_pitch.clamp(-1.4, 1.4)`
ClampPitch(pitch) == FClamp(pitch, -PITCH_LIMIT, PITCH_LIMIT)

\* handle_camera_input for the set `keys` of keys that are down
HandleCameraInput(cam, keys) ==
    LET rotation_speed ==
            IF "SHIFT" \in keys THEN ROTATION_SPEED_SHIFT ELSE ROTATION_SPEED
        speed == IF "SHIFT" \in keys THEN MOVE_SPEED_SHIFT ELSE MOVE_SPEED
        yaw == cam.yaw - (IF "LEFT" \in keys THEN rotation_speed ELSE 0)
                       + (IF "RIGHT" \in keys THEN rotation_speed ELSE 0)
        pitch == ClampPitch(cam.pitch + (IF "UP" \in keys THEN rotation_speed ELSE 0)
                                      - (IF "DOWN" \in keys THEN rotation_speed ELSE 0))
        turned == [pos |-> cam.pos, yaw |-> yaw, pitch |-> pitch]
        forward == Step(Forward(turned), speed)
        right == Step(Right(turned), speed)
        up == Step(Vec(0, FX, 0), speed)
        Moved(pos, key, by) == IF key \in keys THEN VAdd(pos, by) ELSE pos
    IN  [ turned EXCEPT !.pos =
            Moved(Moved(Moved(Moved(Moved(Moved(cam.pos,
                "W", forward), "S", VNeg(forward)), "A", VNeg(right)), "D", right),
                "SPACE", up), "CTRL", VNeg(up)) ]

\* the key states tried at the start of a frame
KeyInputs ==
    { {}, {"LEFT", "W"}, {"RIGHT", "SHIFT", "S"}, {"UP", "A", "SPACE"},
      {"DOWN", "D", "CTRL"} }

\* the column and the row the pixel loop is at
PixelX(p) == p % ImgW
PixelY(p) == p \div ImgW

\* ray_dir of the pixel (x, y)
RayDir(cam, x, y) ==
    LET aspect_ratio == RoundDiv(ImgW * FX, ImgH)
        px == FxMul(FxMul(RoundDiv((2 * x + 1) * FX, ImgW) - FX, TAN_HALF_FOV),
                    aspect_ratio)
        py == FxMul(FX - RoundDiv((2 * y + 1) * FX, ImgH), TAN_HALF_FOV)
    IN  Normalized(VAdd(VAdd(Forward(cam), VScale(Right(cam), px)),
                        VScale(Up(cam), py)))

\* `final_color + color_contrib * light.intensity`
Accumulate(sum, color_contrib, light) == VAdd(sum, VScale(color_contrib, light.intensity))

\* `final_color / lights.len()` and the per-channel min(1.0)
NormalizeOver(sum, num_lights) ==
    [i \in Axes |-> Min2(RoundDiv(sum[i], num_lights), FX)]
Normalize(sum) == NormalizeOver(sum, Len(MainLights))

\* `(x * 255.0).clamp(0.0, 255.0) as u8`: a float-to-u8 cast truncates
Channel(x) == FClamp(x * 255, 0, 255 * FX) \div FX

\* vector3_to_color followed by color_to_u32, the four bytes of the word kept
\* apart as << r, g, b, a >>
PixelWord(v) == << Channel(v[1]), Channel(v[2]), Channel(v[3]), 255 >>

\* color_to_u32(Color::new(135, 206, 235, 255)), the clear colour
SkyBlue == << 135, 206, 235, 255 >>

\* the index set_pixel writes: y * width + x
BufferIndex(x, y) == y * ImgW + x

\* a loop that steps over every other pixel
NextPixelSkipping(p) == p + 2

\* the next value of the pixel loop's induction variables
NextPixel(p) == p + 1

\* an accumulator that is not reset between pixels
FreshColorStale == acc

\* `Vector3::zero()`, the value final_color starts a pixel with
FreshColor == Zero3

\* the thread every statement of main runs on
MainThread == "main"

---------------------------------------------------------------------------
(* Specifications *)

IdleIsect ==
    /\ blk = Block(Zero3, U, SunMaterial)
    /\ ray = [origin |-> Zero3, dir |-> Zero3, tiny |-> FALSE]
    /\ hit = None

IdleTrace ==
    /\ root = [origin |-> Zero3, dir |-> Zero3, depth |-> 0]
    /\ stack = << >>
    /\ result = None
    /\ calls = 0
    /\ tests = 0

IdleWorld ==
    /\ scene = << >>
    /\ lights = << >>
    /\ cpu_textures = << >>
    /\ max_depth = 0

IdleFrame ==
    /\ main_pc = "idle"
    /\ camera = [pos |-> Zero3, yaw |-> 0, pitch |-> 0]
    /\ prev_camera = camera
    /\ frame = 0
    /\ pixel = 0
    /\ light_ix = 0
    /\ acc = Zero3
    /\ fb = << >>
    /\ prev_fb = << >>
    /\ tracer = << >>
    /\ writes = << >>
    /\ writer = << >>

IdleAux ==
    /\ orbit_cam = << >>
    /\ cam_call = [op |-> "none"]
    /\ block_list = << >>
    /\ list_call = [op |-> "none"]
    /\ pixel_buffer = << >>
    /\ bresenham = [pc |-> "idle"]
    /\ ev_camera = [pos |-> Zero3, yaw |-> 0, pitch |-> 0]
    /\ ev_call = [op |-> "none"]

IdleTextures ==
    /\ gpu_textures = << >>
    /\ files = << >>
    /\ tm_call = [op |-> "none"]

\* ---- Block::ray_intersect applied to one block and one ray ----
InitIsect ==
    /\ mode = "isect"
    /\ blk \in IsectBlocks
    /\ ray \in [origin : GridOrigins(blk), dir : Directions, tiny : BOOLEAN]
    /\ hit = None
    /\ IdleTrace /\ IdleWorld /\ IdleFrame /\ IdleTextures /\ IdleAux

RayIntersect ==
    /\ mode = "isect"
    /\ hit = None
    /\ hit' = Some(BlockRayIntersect(blk, ray.origin, ray.dir, ray.tiny))
    /\ UNCHANGED << mode, blk, ray, traceVars, worldVars, frameVars, textureVars,
                    auxVars >>

NextIsect == RayIntersect

SpecIsect == InitIsect /\ [][NextIsect]_vars

\* ---- one call of trace_ray_multi_light ----
InitTrace ==
    /\ mode = "trace"
    /\ scene \in TraceScenes
    /\ lights \in TraceLights
    /\ cpu_textures = LoadedTextures
    /\ max_depth \in 0..MaxDepth
    /\ root \in [origin : TraceOrigins, dir : TraceDirections, depth : 0..(MaxDepth + 1)]
    /\ root.depth <= max_depth + 1
    /\ stack = << Frame(root.origin, root.dir, root.depth) >>
    /\ result = None
    /\ calls = 1
    /\ tests = 0
    /\ IdleIsect /\ IdleFrame /\ IdleTextures /\ IdleAux

NextTrace ==
    \/ TraceEnter
    \/ TraceReflect
    \/ TraceRefract
    \/ TraceCombine

Spec == InitTrace /\ [][NextTrace]_vars

\* trace_ray_multi_light is a sequential function: a step that can be taken
\* is taken
FairSpec == Spec /\ WF_vars(NextTrace)

\* ---- main: frames of the pixel loop ----
InitRender ==
    /\ mode = "render"
    /\ main_pc = "input"
    /\ camera = InitialCamera
    /\ prev_camera = InitialCamera
    /\ frame = 0
    /\ pixel = 0
    /\ light_ix = 0
    /\ acc = Zero3
    /\ fb = [p \in PixelIndices |-> << 0, 0, 0, 0 >>]
    /\ prev_fb = fb
    /\ tracer = [p \in PixelIndices |-> "nobody"]
    /\ writes = [p \in PixelIndices |-> 0]
    /\ writer = [p \in PixelIndices |-> "nobody"]
    /\ scene = RenderScene
    /\ lights = << >>
    /\ cpu_textures = LoadedTextures
    /\ max_depth = MAIN_MAX_DEPTH
    /\ IdleIsect /\ IdleTrace /\ IdleTextures /\ IdleAux

\* top of the frame loop: handle_camera_input, framebuffer.clear
BeginFrame ==
    /\ main_pc = "input"
    /\ frame < MaxFrames
    /\ \E keys \in KeyInputs : camera' = HandleCameraInput(camera, keys)
    /\ fb' = [p \in PixelIndices |-> SkyBlue]
    /\ tracer' = [p \in PixelIndices |-> "nobody"]
    /\ writes' = [p \in PixelIndices |-> 0]
    /\ writer' = [p \in PixelIndices |-> "nobody"]
    /\ pixel' = 0
    /\ main_pc' = "pixel"
    /\ UNCHANGED << mode, isectVars, textureVars, auxVars, traceVars, worldVars, prev_camera, frame,
                    light_ix, acc, prev_fb >>

\* head of the pixel loop's body: `let mut final_color = Vector3::zero();`
BeginPixel ==
    /\ main_pc = "pixel"
    /\ pixel < NumPixels
    /\ acc' = FreshColor
    /\ light_ix' = 1
    /\ main_pc' = "light"
    /\ UNCHANGED << mode, isectVars, textureVars, auxVars, traceVars, worldVars, camera, prev_camera, frame,
                    pixel, fb, prev_fb, tracer, writes, writer >>

\* `trace_ray(camera_pos, ray_dir, 0, 4, &scene, light, &texture_manager)`:
\* trace_ray_multi_light with the one light as its light list
CallTraceRay ==
    /\ main_pc = "light"
    /\ light_ix <= Len(MainLights)
    /\ lights' = << MainLights[light_ix] >>
    /\ root' = [ origin |-> camera.pos,
                 dir |-> RayDir(camera, PixelX(pixel), PixelY(pixel)),
                 depth |-> 0 ]
    /\ stack' = << Frame(root'.origin, root'.dir, 0) >>
    /\ result' = None
    /\ calls' = 1
    /\ tests' = 0
    /\ tracer' = [tracer EXCEPT ![BufferIndex(PixelX(pixel), PixelY(pixel))] =
                                    MainThread]
    /\ main_pc' = "await"
    /\ UNCHANGED << mode, isectVars, textureVars, auxVars, scene, cpu_textures, max_depth, camera,
                    prev_camera, frame, pixel, light_ix, acc, fb, prev_fb, writes,
                    writer >>

\* trace_ray returned: `final_color = final_color + color_contrib * light.intensity`
AccumulateLight ==
    /\ main_pc = "await"
    /\ stack = << >>
    /\ IsSome(result)
    /\ acc' = Accumulate(acc, Unwrap(result), MainLights[light_ix])
    /\ light_ix' = light_ix + 1
    /\ result' = None
    /\ main_pc' = "light"
    /\ UNCHANGED << mode, isectVars, textureVars, auxVars, worldVars, root, stack, calls, tests, camera,
                    prev_camera, frame, pixel, fb, prev_fb, tracer, writes, writer >>

\* after the light loop: normalise, convert, framebuffer.set_pixel
WritePixel ==
    /\ main_pc = "light"
    /\ light_ix > Len(MainLights)
    /\ LET index == BufferIndex(PixelX(pixel), PixelY(pixel))
       IN  /\ fb' = [fb EXCEPT ![index] = PixelWord(Normalize(acc))]
           /\ writes' = [writes EXCEPT ![index] = @ + 1]
           /\ writer' = [writer EXCEPT ![index] = MainThread]
    /\ pixel' = NextPixel(pixel)
    /\ main_pc' = "pixel"
    /\ UNCHANGED << mode, isectVars, textureVars, auxVars, traceVars, worldVars, camera, prev_camera, frame,
                    light_ix, acc, prev_fb, tracer >>

\* the pixel loop is over: framebuffer.present, and the next iteration of the
\* frame loop
Present ==
    /\ main_pc = "pixel"
    /\ pixel >= NumPixels
    /\ prev_fb' = fb
    /\ prev_camera' = camera
    /\ frame' = frame + 1
    /\ main_pc' = "input"
    /\ UNCHANGED << mode, isectVars, textureVars, auxVars, traceVars, worldVars, camera, pixel, light_ix,
                    acc, fb, tracer, writes, writer >>

NextRender ==
    \/ BeginFrame
    \/ BeginPixel
    \/ CallTraceRay
    \/ TraceEnter
    \/ TraceReflect
    \/ TraceRefract
    \/ TraceCombine
    \/ AccumulateLight
    \/ WritePixel
    \/ Present

SpecRender == InitRender /\ [][NextRender]_vars

---------------------------------------------------------------------------
(* Geometry the properties are stated against *)

\* a rational number n / d with d > 0
Frac(n, d) == [n |-> n, d |-> d]
FracLe(a, b) == a.n * b.d <= b.n * a.d

\* the parameter at which a ray enters, and leaves, the slab of axis i
\* (the direction's component on the axis is not zero)
EnterAt(b, origin, dir, i) ==
    IF dir[i] > 0 THEN Frac(BlockMin(b)[i] - origin[i], dir[i])
    ELSE Frac(origin[i] - BlockMax(b)[i], -dir[i])
LeaveAt(b, origin, dir, i) ==
    IF dir[i] > 0 THEN Frac(BlockMax(b)[i] - origin[i], dir[i])
    ELSE Frac(origin[i] - BlockMin(b)[i], -dir[i])

\* the ray origin + t * dir, t >= 0, meets the closed cube of block b
RayMeetsCube(b, origin, dir) ==
    /\ \A i \in Axes :
         dir[i] = 0 => BlockMin(b)[i] <= origin[i] /\ origin[i] <= BlockMax(b)[i]
    /\ \A i \in Axes : dir[i] # 0 => LeaveAt(b, origin, dir, i).n >= 0
    /\ \A i, j \in Axes :
         dir[i] # 0 /\ dir[j] # 0
            => FracLe(EnterAt(b, origin, dir, i), LeaveAt(b, origin, dir, j))

RayMissesScene(blocks, origin, dir) ==
    \A k \in DOMAIN blocks : ~RayMeetsCube(blocks[k], origin, dir)

\* a colour with every channel a number of [0, 1]
InUnitRange(c) == \A i \in Axes : ~IsNaN(c[i]) /\ 0 <= c[i] /\ c[i] <= FX

\* the outermost call has returned
Returned == mode = "trace" /\ IsSome(result)

\* ---- a TextureManager under loads, samples and changes of the files ----
\* paths of main.rs's texture list
TexturePaths == { "textures/cobble.png", "textures/dirt.jpg" }

\* two 2x2 images, as RGB bytes
CobbleImage ==
    [ width |-> 2, height |-> 2,
      data |-> << <<255, 255, 255>>, <<128, 128, 128>>, <<51, 102, 153>>, <<0, 0, 0>> >> ]
DirtImage ==
    [ width |-> 3, height |-> 1,
      data |-> << <<102, 77, 51>>, <<0, 0, 255>>, <<255, 0, 0>> >> ]

\* what a path can hold: nothing decodable, or one of the images
FileContents == { None, Some(CobbleImage), Some(DirtImage) }

\* texture coordinates (u, v) passed to the samplers: inside [0, 1], below it,
\* above it, NaN, the two extreme corners, and infinite
SampleCoords ==
    { << FX \div 4, FX \div 2 >>, << -(FX \div 2), FX \div 4 >>,
      << FX \div 4, FX + FX \div 2 >>, << NaN, FX \div 4 >>,
      << 0, 0 >>, << FX, FX >>, << Inf, -Inf >> }

\* paths whose load_texture has returned Ok / Err so far
Succeeded ==
    IF tm_call.op = "none" THEN {}
    ELSE tm_call.succeeded
            \cup (IF tm_call.op = "load_texture" /\ tm_call.result = Ok
                  THEN {tm_call.path} ELSE {})
Failed ==
    IF tm_call.op = "none" THEN {}
    ELSE tm_call.failed
            \cup (IF tm_call.op = "load_texture" /\ tm_call.result # Ok
                  THEN {tm_call.path} ELSE {})

\* the record of a call
TmCall(op, path, args, returned, decode_calls) ==
    [ op |-> op, path |-> path, args |-> args, result |-> returned,
      decode_calls |-> decode_calls,
      cpu_before |-> cpu_textures, gpu_before |-> gpu_textures,
      succeeded |-> Succeeded, failed |-> Failed ]

InitTextures ==
    /\ mode = "textures"
    /\ cpu_textures = << >>
    /\ gpu_textures = << >>
    /\ files \in [TexturePaths -> FileContents]
    /\ tm_call = [op |-> "none"]
    /\ scene = << >> /\ lights = << >> /\ max_depth = 0
    /\ IdleIsect /\ IdleTrace /\ IdleFrame /\ IdleAux

\* texture_manager.load_texture(rl, thread, path)
LoadTextureCall ==
    /\ mode = "textures"
    /\ \E path \in TexturePaths, gpu_ok \in BOOLEAN :
         \E r \in {LoadTexture(cpu_textures, gpu_textures, path, files[path], gpu_ok)} :
            /\ cpu_textures' = r.cpu
            /\ gpu_textures' = r.gpu
            /\ tm_call' = TmCall("load_texture", path,
                                 [file |-> files[path], gpu_ok |-> gpu_ok],
                                 r.result, r.decode_calls)
    /\ UNCHANGED << mode, files, scene, lights, max_depth, isectVars, traceVars,
                    frameVars, auxVars >>

\* texture_manager.sample_texture(path, u, v)
SampleTextureCall ==
    /\ mode = "textures"
    /\ \E path \in TexturePaths, uv \in SampleCoords :
         tm_call' = TmCall("sample_texture", path, [u |-> uv[1], v |-> uv[2]],
                           SampleTexture(path, uv[1], uv[2]), 0)
    /\ UNCHANGED << mode, files, gpu_textures, worldVars, isectVars, traceVars,
                    frameVars, auxVars >>

\* texture_manager.sample_normal_map(path, u, v)
SampleNormalMapCall ==
    /\ mode = "textures"
    /\ \E path \in TexturePaths, uv \in SampleCoords :
         tm_call' = TmCall("sample_normal_map", path, [u |-> uv[1], v |-> uv[2]],
                           SampleNormalMap(path, uv[1], uv[2]), 0)
    /\ UNCHANGED << mode, files, gpu_textures, worldVars, isectVars, traceVars,
                    frameVars, auxVars >>

\* the environment replaces, damages or removes an image file
RewriteFile ==
    /\ mode = "textures"
    /\ \E path \in TexturePaths, content \in FileContents :
         /\ files[path] # content
         /\ files' = [files EXCEPT ![path] = content]
    /\ UNCHANGED << mode, gpu_textures, tm_call, worldVars, isectVars, traceVars,
                    frameVars, auxVars >>

NextTextures ==
    \/ LoadTextureCall
    \/ SampleTextureCall
    \/ SampleNormalMapCall
    \/ RewriteFile

SpecTextures == InitTextures /\ [][NextTextures]_vars

---------------------------------------------------------------------------
(* Properties of trace_ray_multi_light *)

\* C1: a ray that meets no block's cube, traced with depth <= max_depth,
\* returns exactly sky_color(direction), whatever the blocks and the lights.
C1_MissReturnsSky ==
    (Returned /\ root.depth <= max_depth
              /\ RayMissesScene(scene, root.origin, root.dir))
        => Unwrap(result) = SkyColor(root.dir)

\* C2: a call with depth > max_depth returns sky_color(direction) without an
\* intersection test and without a recursive call, whatever the scene.
C2_CutoffReturnsSky ==
    (Returned /\ root.depth > max_depth)
        => /\ Unwrap(result) = SkyColor(root.dir)
           /\ tests = 0
           /\ calls = 1

\* C2 witness: a cut-off call whose ray does meet a block of the scene
C2_Witness ==
    /\ Returned
    /\ root.depth = max_depth + 1
    /\ lights # << >>
    /\ \E k \in DOMAIN scene : RayMeetsCube(scene[k], root.origin, root.dir)

\* the activations on the stack are nested by depth + 1, none of a call started
\* within the budget is deeper than max_depth, and none has made more than
\* two recursive calls
BoundedNesting ==
    /\ \A k \in DOMAIN stack :
         /\ stack[k].depth = root.depth + (k - 1)
         /\ stack[k].children <= 2
         /\ k > 1 => stack[k].depth <= max_depth
    /\ root.depth <= max_depth => Len(stack) <= max_depth - root.depth + 1

\* C3: every call terminates; recursive calls are made with depth + 1 only
\* while depth < max_depth, so the nesting never exceeds max_depth and an
\* invocation makes at most two recursive calls.
C3_Terminates == [](mode = "trace" => BoundedNesting) /\ <>Returned

\* C3 witness: two facing mirrors traced from depth 0 down to the last level
\* the budget allows
C3_Witness ==
    /\ Returned
    /\ scene = SceneMirrors
    /\ root.depth = 0
    /\ max_depth = MaxDepth
    /\ calls = MaxDepth + 1

C5_WeightsSumToOne ==
    (mode = "trace" /\ stack # << >> /\ Top.pc = "combine")
        => LET w == BlendWeights(Unwrap(Top.intersect.material), Top.fresnel_factor)
           IN  w.direct + w.reflected + w.refracted = FX

---------------------------------------------------------------------------
(* camera.rs: the orbit camera *)

\* the clamp of the pitch in orbit: 1.5 rad, in thousandths of a radian
ORBIT_PITCH_LIMIT == 1500

\* angles from -pi/2 to pi/2 in steps of 1/40 rad, and their sines
AsinAngles == { 25 * k : k \in -63..63 }
AsinTable == [a \in AsinAngles |-> Sin(a)]

\* f32::asin of an FX-scaled number: NaN outside [-1, 1], else the angle of
\* the table whose sine is nearest
Asin(x_) ==
    Once({ IF IsNaN(x) \/ x > FX \/ x < -FX THEN NaN
           ELSE CHOOSE a \in AsinAngles :
                   \A b \in AsinAngles : Abs(AsinTable[a] - x) <= Abs(AsinTable[b] - x) :
           x \in {x_} })

NaN3 == << NaN, NaN, NaN >>

\* forward, right and up recomputed from eye, center and up; a NaN eye makes
\* all three NaN
Basis(c) ==
    IF IsNaN(c.eye[1])
    THEN [c EXCEPT !.forward = NaN3, !.right = NaN3, !.up = NaN3]
    ELSE LET forward == Normalized(VSub(c.center, c.eye))
             right == Normalized(Cross(forward, c.up))
         IN  [c EXCEPT !.forward = forward, !.right = right,
                       !.up = Cross(right, forward)]

\* update_basis without `self.changed = true`
UpdateBasisSilent(c) == Basis(c)

\* Camera::update_basis
UpdateBasis(c) == [Basis(c) EXCEPT !.changed = TRUE]

\* Camera::new
CameraNew(eye, center, up) ==
    UpdateBasis([ eye |-> eye, center |-> center, up |-> up, forward |-> Zero3,
                  right |-> Zero3, changed |-> TRUE ])

\* the cosine and the sine of atan2(z, x) + yaw, by the addition formulas;
\* atan2(0, 0) is 0
YawAfter(x, z, yaw) ==
    LET h == Length(Vec(x, 0, z))
        c == IF h = 0 THEN FX ELSE RoundDiv(x * FX, h)
        s == IF h = 0 THEN 0 ELSE RoundDiv(z * FX, h)
    IN  [ cos |-> FxMul(c, Cos(yaw)) - FxMul(s, Sin(yaw)),
          sin |-> FxMul(s, Cos(yaw)) + FxMul(c, Sin(yaw)) ]

\* Camera::orbit; a camera at its centre has radius 0, and 0 / 0 is NaN; a NaN
\* eye stays NaN
Orbit(c, yaw, pitch) ==
    LET rel == IF IsNaN(c.eye[1]) THEN Zero3 ELSE VSub(c.eye, c.center)
        radius == Length(rel)
        current_pitch == IF radius = 0 THEN NaN ELSE Asin(RoundDiv(rel[2] * FX, radius))
        new_pitch == FClamp(FAdd(current_pitch, pitch), -ORBIT_PITCH_LIMIT,
                            ORBIT_PITCH_LIMIT)
        new_yaw == YawAfter(rel[1], rel[3], yaw)
        new_rel == IF IsNaN(new_pitch) THEN NaN3
                   ELSE Vec(FxMul(FxMul(radius, Cos(new_pitch)), new_yaw.cos),
                            FxMul(radius, Sin(new_pitch)),
                            FxMul(FxMul(radius, Cos(new_pitch)), new_yaw.sin))
    IN  UpdateBasis([c EXCEPT !.eye = IF IsNaN(new_pitch) THEN NaN3
                                     ELSE VAdd(c.center, new_rel)])

\* Camera::zoom
Zoom(c, amount) ==
    UpdateBasis([c EXCEPT !.eye =
                    IF IsNaN(c.eye[1]) THEN NaN3
                    ELSE VAdd(c.eye, VScale(Normalized(VSub(c.center, c.eye)), amount))])

\* Camera::is_changed: the flag as it was, and the camera with the flag reset
IsChanged(c) == [ was_changed |-> c.changed, cam |-> [c EXCEPT !.changed = FALSE] ]

\* the greatest number of modifying calls made on one camera
MaxCameraOps == 3

\* eyes, centres, orbit angles and zoom amounts
CameraEyes == { Vec(0, 0, 5 * FX), Vec(3 * FX, 4 * FX, 0), Zero3 }
CameraCentres == { Zero3, Vec(FX, 0, 0) }
OrbitAngles == { << 100, 0 >>, << 0, 200 >>, << -300, -2000 >> }
ZoomAmounts == { FX \div 2, -FX }

\* the record of a Camera call: what was called, what it returned, the
\* call before it, the centre before it, whether the camera was created or
\* modified since the is_changed call before it, and the modifying calls made
CamCall(op, returned, modified, ops) ==
    [ op |-> op, result |-> returned, prev_op |-> cam_call.op,
      center_before |-> IF orbit_cam = << >> THEN Zero3 ELSE orbit_cam.center,
      modified_before |-> IF cam_call.op = "none" THEN FALSE ELSE cam_call.modified,
      modified |-> modified, ops |-> ops ]

InitCamera ==
    /\ mode = "camera"
    /\ orbit_cam = << >>
    /\ cam_call = [op |-> "none"]
    /\ block_list = << >>
    /\ list_call = [op |-> "none"]
    /\ pixel_buffer = << >>
    /\ bresenham = [pc |-> "idle"]
    /\ ev_camera = [pos |-> Zero3, yaw |-> 0, pitch |-> 0]
    /\ ev_call = [op |-> "none"]
    /\ IdleIsect /\ IdleTrace /\ IdleWorld /\ IdleFrame /\ IdleTextures

\* what every Camera call leaves alone
CameraFrame ==
    UNCHANGED << mode, block_list, list_call, pixel_buffer, bresenham, ev_camera, ev_call,
                 isectVars, traceVars, worldVars, frameVars, textureVars >>

\* Camera::new(eye, center, up)
CameraNewCall ==
    /\ mode = "camera"
    /\ orbit_cam = << >>
    /\ \E eye \in CameraEyes, center \in CameraCentres :
         /\ orbit_cam' = CameraNew(eye, center, Vec(0, FX, 0))
         /\ cam_call' = CamCall("new", << >>, TRUE, 0)
    /\ CameraFrame

\* camera.update_basis()
UpdateBasisCall ==
    /\ mode = "camera"
    /\ orbit_cam # << >>
    /\ cam_call.ops < MaxCameraOps
    /\ orbit_cam' = UpdateBasis(orbit_cam)
    /\ cam_call' = CamCall("update_basis", << >>, TRUE, cam_call.ops + 1)
    /\ CameraFrame

\* camera.orbit(yaw, pitch)
OrbitCall ==
    /\ mode = "camera"
    /\ orbit_cam # << >>
    /\ cam_call.ops < MaxCameraOps
    /\ \E a \in OrbitAngles :
         /\ orbit_cam' = Orbit(orbit_cam, a[1], a[2])
         /\ cam_call' = CamCall("orbit", << >>, TRUE, cam_call.ops + 1)
    /\ CameraFrame

\* camera.zoom(amount)
ZoomCall ==
    /\ mode = "camera"
    /\ orbit_cam # << >>
    /\ cam_call.ops < MaxCameraOps
    /\ \E amount \in ZoomAmounts :
         /\ orbit_cam' = Zoom(orbit_cam, amount)
         /\ cam_call' = CamCall("zoom", << >>, TRUE, cam_call.ops + 1)
    /\ CameraFrame

\* camera.is_changed()
IsChangedCall ==
    /\ mode = "camera"
    /\ orbit_cam # << >>
    /\ \E r \in {IsChanged(orbit_cam)} :
         /\ orbit_cam' = r.cam
         /\ cam_call' = CamCall("is_changed", << r.was_changed >>, FALSE, cam_call.ops)
    /\ CameraFrame

NextCamera ==
    \/ CameraNewCall
    \/ UpdateBasisCall
    \/ OrbitCall
    \/ ZoomCall
    \/ IsChangedCall

SpecCamera == InitCamera /\ [][NextCamera]_vars

---------------------------------------------------------------------------
(* scene.rs: the block list and replace_block *)

\* the new block appended without removing the blocks at its position
ReplaceBlockPushOnly(list, new_block) == Append(list, new_block)

\* replace_block: `blocks.retain(|b| b.position != pos); blocks.push(new_block)`
ReplaceBlock(list, new_block) ==
    Append(SelectSeq(list, LAMBDA b : b.position # new_block.position), new_block)

\* the longest block list the model builds
MaxBlocks == 4

\* the blocks scene.rs places: three positions of the surface layer, each as
\* sand or as stone-like cobble
ScenePositions == { Zero3, Vec(U, 0, 0), Vec(U, 0, 2 * U) }
SceneBlocks ==
    { Block(p, U, m) : p \in ScenePositions, m \in {SunMaterial, CobbleMaterial} }

\* the record of a call on the list: what was called, with which block, and
\* the list as it was before
ListCall(op, new_block) == [ op |-> op, block |-> new_block, before |-> block_list ]

InitScene ==
    /\ mode = "scene"
    /\ block_list = << >>
    /\ list_call = [op |-> "none"]
    /\ orbit_cam = << >>
    /\ cam_call = [op |-> "none"]
    /\ pixel_buffer = << >>
    /\ bresenham = [pc |-> "idle"]
    /\ ev_camera = [pos |-> Zero3, yaw |-> 0, pitch |-> 0]
    /\ ev_call = [op |-> "none"]
    /\ IdleIsect /\ IdleTrace /\ IdleWorld /\ IdleFrame /\ IdleTextures

\* what every call on the list leaves alone
SceneFrame ==
    UNCHANGED << mode, orbit_cam, cam_call, pixel_buffer, bresenham, ev_camera, ev_call,
                 isectVars, traceVars, worldVars, frameVars, textureVars >>

\* blocks.push(block), as create_optimized_scene does for most blocks
PushBlockCall ==
    /\ mode = "scene"
    /\ Len(block_list) < MaxBlocks
    /\ \E b \in SceneBlocks :
         /\ block_list' = Append(block_list, b)
         /\ list_call' = ListCall("push", b)
    /\ SceneFrame

\* replace_block(&mut blocks, block)
ReplaceBlockCall ==
    /\ mode = "scene"
    /\ \E b \in SceneBlocks :
         /\ block_list' = ReplaceBlock(block_list, b)
         /\ list_call' = ListCall("replace_block", b)
    /\ SceneFrame

NextScene ==
    \/ PushBlockCall
    \/ ReplaceBlockCall

SpecScene == InitScene /\ [][NextScene]_vars

---------------------------------------------------------------------------
(* framebuffer.rs: set_pixel_fast and the Bresenham line of draw_line_fast *)

\* i32 is modelled with IntBits bits, so that lines as long as the integer
\* range can be walked; the frame is LineW x LineH pixels
IntBits == 3
LineW == 3
LineH == 2

IntMin == -(2 ^ (IntBits - 1))
IntMax == 2 ^ (IntBits - 1) - 1
IntRange == IntMin .. IntMax

\* whether an exact result fits the integer type, and the value a wrapping
\* build leaves when it does not
Fits(n) == n >= IntMin /\ n <= IntMax
Wrap(n) == ((n - IntMin) % (2 ^ IntBits)) + IntMin

\* i32::abs: the magnitude, which for the least integer does not fit
AbsExact(n) == IF n < 0 THEN -n ELSE n

\* pixel colours: background, the line's colour, the colour of a single pixel
Background == 0
LineColor == 1
DotColor == 2

\* Framebuffer::new / clear: every pixel the background colour
ClearedBuffer == [ i \in 1 .. LineW * LineH |-> Background ]

\* set_pixel_fast
SetPixelFast(buffer, x, y, color_rgba) ==
    IF x < LineW /\ y < LineH
    THEN [ buffer EXCEPT ![y * LineW + x + 1] = color_rgba ]
    ELSE buffer

\* the start of draw_line_fast, up to `loop`: the exact results of its
\* subtractions and magnitudes, each computed from the wrapped one before
LineSetup(from, to) ==
    LET ddx == to[1] - from[1]
        ddy == to[2] - from[2]
        adx == AbsExact(Wrap(ddx))
        ady == AbsExact(Wrap(ddy))
        e   == Wrap(adx) - Wrap(ady)
    IN  [ exact |-> << ddx, ddy, adx, ady, e >>,
          x0 |-> from[1], y0 |-> from[2], x1 |-> to[1], y1 |-> to[2],
          dx |-> Wrap(adx), dy |-> Wrap(ady),
          sx |-> IF from[1] < to[1] THEN 1 ELSE -1,
          sy |-> IF from[2] < to[2] THEN 1 ELSE -1,
          err |-> Wrap(e) ]

\* the arithmetic of one turn of the loop after the `break` test
LineAdvance(l) ==
    LET e2exact == 2 * l.err
        e2      == Wrap(e2exact)
        negdy   == -l.dy
        stepx   == e2 > Wrap(negdy)
        err1    == IF stepx THEN l.err - l.dy ELSE l.err
        nx      == IF stepx THEN l.x0 + l.sx ELSE l.x0
        stepy   == e2 < l.dx
        err2    == IF stepy THEN Wrap(err1) + l.dx ELSE Wrap(err1)
        ny      == IF stepy THEN l.y0 + l.sy ELSE l.y0
    IN  [ exact |-> << e2exact, negdy, err1, nx, err2, ny >>,
          x0 |-> Wrap(nx), y0 |-> Wrap(ny), err |-> Wrap(err2) ]

\* every exact result of a step fits the integer type
AllFit(exact) == \A k \in DOMAIN exact : Fits(exact[k])

\* the pixel the loop is at lies inside the frame
InFrame(x, y) == x >= 0 /\ y >= 0 /\ x < LineW /\ y < LineH

InitLine ==
    /\ mode = "line"
    /\ pixel_buffer = ClearedBuffer
    /\ bresenham = [pc |-> "idle"]
    /\ block_list = << >>
    /\ list_call = [op |-> "none"]
    /\ orbit_cam = << >>
    /\ cam_call = [op |-> "none"]
    /\ ev_camera = [pos |-> Zero3, yaw |-> 0, pitch |-> 0]
    /\ ev_call = [op |-> "none"]
    /\ IdleIsect /\ IdleTrace /\ IdleWorld /\ IdleFrame /\ IdleTextures

\* what every framebuffer operation leaves alone
LineFrame ==
    UNCHANGED << mode, block_list, list_call, orbit_cam, cam_call, ev_camera, ev_call,
                 isectVars, traceVars, worldVars, frameVars, textureVars >>

\* a call of set_pixel_fast with any unsigned coordinates
SetPixelFastCall ==
    /\ mode = "line"
    /\ bresenham.pc \in {"idle", "set"}
    /\ \E x \in 0 .. LineW + 1, y \in 0 .. LineH + 1 :
         /\ pixel_buffer' = SetPixelFast(pixel_buffer, x, y, DotColor)
         /\ bresenham' = [ pc |-> "set", x |-> x, y |-> y, before |-> pixel_buffer ]
    /\ LineFrame

\* Framebuffer::clear
ClearCall ==
    /\ mode = "line"
    /\ bresenham.pc \in {"set", "done", "panicked"}
    /\ pixel_buffer' = ClearedBuffer
    /\ bresenham' = [pc |-> "idle"]
    /\ LineFrame

\* draw_line_fast is called, in a build that checks integer overflow or in
\* one that wraps, and runs up to its loop
DrawLineFastCall ==
    /\ mode = "line"
    /\ bresenham.pc = "idle"
    /\ \E from \in IntRange \X IntRange, to \in IntRange \X IntRange,
          checked \in BOOLEAN :
         \E l \in { LineSetup(from, to) } :
            bresenham' =
                [ pc |-> IF checked /\ ~AllFit(l.exact) THEN "panicked" ELSE "loop",
                  checked |-> checked, from |-> from, to |-> to,
                  x0 |-> l.x0, y0 |-> l.y0, x1 |-> l.x1, y1 |-> l.y1,
                  dx |-> l.dx, dy |-> l.dy, sx |-> l.sx, sy |-> l.sy,
                  err |-> l.err, written |-> {} ]
    /\ UNCHANGED pixel_buffer
    /\ LineFrame

\* one turn of the loop: plot, test for the end point, advance
LineStep ==
    /\ mode = "line"
    /\ bresenham.pc = "loop"
    /\ \E l \in { LineAdvance(bresenham) } :
         \E plot \in { InFrame(bresenham.x0, bresenham.y0) } :
            /\ pixel_buffer' =
                   IF plot
                   THEN SetPixelFast(pixel_buffer, bresenham.x0, bresenham.y0, LineColor)
                   ELSE pixel_buffer
            /\ bresenham' =
                   LET b == [ bresenham EXCEPT
                              !.written = IF plot
                                          THEN @ \cup {<< bresenham.x0, bresenham.y0 >>}
                                          ELSE @ ]
                   IN  IF bresenham.x0 = bresenham.x1 /\ bresenham.y0 = bresenham.y1
                       THEN [ b EXCEPT !.pc = "done" ]
                       ELSE IF bresenham.checked /\ ~AllFit(l.exact)
                       THEN [ b EXCEPT !.pc = "panicked" ]
                       ELSE [ b EXCEPT !.x0 = l.x0, !.y0 = l.y0, !.err = l.err ]
    /\ LineFrame

NextLine ==
    \/ SetPixelFastCall
    \/ ClearCall
    \/ DrawLineFastCall
    \/ LineStep

SpecLine == InitLine /\ [][NextLine]_vars

\* the loop is a sequential piece of code: once entered it keeps running
FairSpecLine == SpecLine /\ WF_vars(LineStep)

---------------------------------------------------------------------------
(* events.rs and main.rs: handle_camera_input called frame after frame *)

\* move_speed 0.1 in position units, rot_speed 0.03 and the limit
\* FRAC_PI_2 - 0.1 in thousandths of a radian
EV_MOVE_SPEED == 2000
EV_ROT_SPEED == 30
EV_PITCH_LIMIT == 1471

\* the two comparisons that limit the pitch in events.rs
LimitPitch(pitch) ==
    LET high == IF pitch > EV_PITCH_LIMIT THEN EV_PITCH_LIMIT ELSE pitch
    IN  IF high < -EV_PITCH_LIMIT THEN -EV_PITCH_LIMIT ELSE high

\* events.rs handle_camera_input for the set `keys` of keys that are down
EventsHandleCameraInput(cam, keys) ==
    LET forward == Step(Vec(Cos(cam.yaw), 0, Sin(cam.yaw)), EV_MOVE_SPEED)
        right == Step(Vec(-Sin(cam.yaw), 0, Cos(cam.yaw)), EV_MOVE_SPEED)
        up == Vec(0, EV_MOVE_SPEED, 0)
        Moved(pos, key, by) == IF key \in keys THEN VAdd(pos, by) ELSE pos
        yaw == cam.yaw + (IF "RIGHT" \in keys THEN EV_ROT_SPEED ELSE 0)
                       - (IF "LEFT" \in keys THEN EV_ROT_SPEED ELSE 0)
        pitch == cam.pitch + (IF "UP" \in keys THEN EV_ROT_SPEED ELSE 0)
                           - (IF "DOWN" \in keys THEN EV_ROT_SPEED ELSE 0)
    IN  [ pos |-> Moved(Moved(Moved(Moved(Moved(Moved(cam.pos,
                      "W", forward), "S", VNeg(forward)), "A", VNeg(right)), "D", right),
                      "SPACE", up), "CTRL", VNeg(up)),
          yaw |-> yaw,
          pitch |-> LimitPitch(pitch) ]

\* input frames handled before the window closes
MaxInputFrames == 2

\* the pitches and yaws a caller may hand in: inside, at and far beyond the
\* two limits
PriorPitches == { -3000, -1471, -1400, -300, 0, 1390, 1460, 3000 }
PriorYaws == { -1480, 0, 1480 }

\* every combination of the rotation keys, alone and with movement keys
HeldKeys ==
    SUBSET {"UP", "DOWN", "RIGHT", "SHIFT"}
        \cup { {"LEFT"}, {"LEFT", "UP", "W", "D", "SPACE"},
               {"LEFT", "RIGHT", "DOWN", "S", "A", "CTRL"},
               {"LEFT", "RIGHT", "UP", "DOWN", "SHIFT", "W", "S", "A", "D",
                "SPACE", "CTRL"} }

InitEvents ==
    /\ mode = "events"
    /\ ev_camera \in [ pos : {InitialCamera.pos}, yaw : PriorYaws, pitch : PriorPitches ]
    /\ ev_call \in [ op : {"none"}, version : {"main", "events"}, frames : {0} ]
    /\ block_list = << >>
    /\ list_call = [op |-> "none"]
    /\ orbit_cam = << >>
    /\ cam_call = [op |-> "none"]
    /\ pixel_buffer = << >>
    /\ bresenham = [pc |-> "idle"]
    /\ IdleIsect /\ IdleTrace /\ IdleWorld /\ IdleFrame /\ IdleTextures

\* what a call of handle_camera_input leaves alone
EventsFrame ==
    UNCHANGED << mode, block_list, list_call, orbit_cam, cam_call, pixel_buffer,
                 bresenham, isectVars, traceVars, worldVars, frameVars, textureVars >>

\* the record of a call: the keys held and the camera before it
EvCall(keys) ==
    [ op |-> "handle_camera_input", version |-> ev_call.version,
      frames |-> ev_call.frames + 1, keys |-> keys, before |-> ev_camera ]

\* one frame of a program that uses main.rs handle_camera_input
MainInputFrame ==
    /\ mode = "events"
    /\ ev_call.version = "main"
    /\ ev_call.frames < MaxInputFrames
    /\ \E keys \in HeldKeys :
         /\ ev_camera' = HandleCameraInput(ev_camera, keys)
         /\ ev_call' = EvCall(keys)
    /\ EventsFrame

\* one frame of a program that uses events.rs handle_camera_input
EventsInputFrame ==
    /\ mode = "events"
    /\ ev_call.version = "events"
    /\ ev_call.frames < MaxInputFrames
    /\ \E keys \in HeldKeys :
         /\ ev_camera' = EventsHandleCameraInput(ev_camera, keys)
         /\ ev_call' = EvCall(keys)
    /\ EventsFrame

NextEvents ==
    \/ MainInputFrame
    \/ EventsInputFrame

SpecEvents == InitEvents /\ [][NextEvents]_vars

---------------------------------------------------------------------------
(* Properties of Block::ray_intersect *)

\* ray_intersect has been called on the ray
Called == mode = "isect" /\ IsSome(hit)

\* the Intersect it returned
Returned_hit == Unwrap(hit)

StrictlyInside(b, p) ==
    \A i \in Axes : BlockMin(b)[i] < p[i] /\ p[i] < BlockMax(b)[i]

\* p is on the surface of the cube, up to the rounding of one position unit
OnBoundary(b, p) ==
    /\ \A i \in Axes :
         /\ IsFinite(p[i])
         /\ BlockMin(b)[i] - FaceEpsilon <= p[i]
         /\ p[i] <= BlockMax(b)[i] + FaceEpsilon
    /\ \E i \in Axes :
         \/ Abs(p[i] - BlockMin(b)[i]) <= FaceEpsilon
         \/ Abs(p[i] - BlockMax(b)[i]) <= FaceEpsilon

\* a hit with a non-negative distance and its point on the cube's surface
ExitsThroughBoundary ==
    /\ Returned_hit.is_intersecting
    /\ FGe(Returned_hit.distance, 0)
    /\ OnBoundary(blk, Returned_hit.point)

\* no component of the direction is non-zero yet within 1e-8 of zero
NoTinyComponent(r) == \A i \in Axes : r.dir[i] = 0 \/ DirBig(r.dir[i], r.tiny)

\* C6 as stated: from an origin strictly inside the block, every non-zero
\* direction yields a hit with distance >= 0 whose point is on the boundary.
C6_InsideHitsBoundary ==
    (Called /\ StrictlyInside(blk, ray.origin)) => ExitsThroughBoundary

\* C6 amended: the same for every direction none of whose components is
\* non-zero yet at most 1e-8 in magnitude.
C6_InsideHitsBoundaryAmended ==
    (Called /\ StrictlyInside(blk, ray.origin) /\ NoTinyComponent(ray))
        => ExitsThroughBoundary

\* C6 witness: an oblique ray of very small components leaves the block
\* through its boundary
C6_Witness ==
    /\ Called
    /\ StrictlyInside(blk, ray.origin)
    /\ NoTinyComponent(ray)
    /\ ray.tiny
    /\ ray.dir[1] # 0 /\ ray.dir[2] # 0
    /\ Returned_hit.distance > 0
    /\ ExitsThroughBoundary

\* the centre of the face of b on axis i, side s (-1 or 1), and its outward
\* unit normal
FaceCentre(b, i, s) ==
    [k \in Axes |-> IF k = i THEN b.position[k] + s * (b.size \div 2)
                    ELSE b.position[k]]
OutwardNormal(i, s) == [k \in Axes |-> IF k = i THEN s * FX ELSE 0]

\* every face centre the hit point coincides with has given its normal
NormalOfFaceCentre ==
    \A i \in Axes, s \in {-1, 1} :
        Returned_hit.point = FaceCentre(blk, i, s)
            => Returned_hit.normal = OutwardNormal(i, s)

InUnit(x) == ~IsNaN(x) /\ 0 <= x /\ x <= FX

\* C8: every hit ray_intersect returns has both texture coordinates within
\* [0, 1].
C8_UvInUnitRange ==
    (Called /\ Returned_hit.is_intersecting)
        => InUnit(Returned_hit.u) /\ InUnit(Returned_hit.v)

---------------------------------------------------------------------------
(* Properties of main's frame loop *)

\* the pixel loop of the current frame is over and the frame not yet presented
FrameDone == mode = "render" /\ main_pc = "pixel" /\ pixel >= NumPixels

\* C9: two frames rendered from the same camera, scene, lights and textures
\* have identical pixel buffers, and a frame leaves the scene and the texture
\* store as they were.
C9_Deterministic ==
    /\ (FrameDone /\ frame >= 1 /\ camera = prev_camera) => fb = prev_fb
    /\ mode = "render" => scene = RenderScene /\ cpu_textures = LoadedTextures

\* C9 witness: a second frame from an unmoved camera, with a block in view
C9_Witness ==
    /\ FrameDone
    /\ frame = 1
    /\ camera = prev_camera
    /\ fb = prev_fb
    /\ \E p, q \in PixelIndices : fb[p] # fb[q]

---------------------------------------------------------------------------
(* Properties of the TextureManager *)

\* the last call was load_texture / a sampler
Loaded == mode = "textures" /\ tm_call.op = "load_texture"

\* both maps are as they were before the last call
MapsUntouched ==
    /\ cpu_textures = tm_call.cpu_before
    /\ gpu_textures = tm_call.gpu_before

\* C11: a load_texture of a path whose load has already succeeded returns Ok,
\* does not decode the file again and leaves the CPU map and the GPU map
\* unchanged, whatever was loaded or rewritten in between.
C11_LoadIdempotent ==
    (Loaded /\ tm_call.path \in tm_call.succeeded)
        => /\ tm_call.result = Ok
           /\ tm_call.decode_calls = 0
           /\ MapsUntouched

\* C11 witness: a second load of a loaded path whose file has changed since,
\* after a load of the other path
C11_Witness ==
    /\ Loaded
    /\ tm_call.path \in tm_call.succeeded
    /\ tm_call.succeeded = TexturePaths
    /\ IsSome(tm_call.args.file)
    /\ cpu_textures[tm_call.path] # FromImage(Unwrap(tm_call.args.file))
    /\ tm_call.result = Ok

\* C12: a load_texture that fails returns Err, adds no entry for its path to
\* either map and changes no stored texture; and a load whose file decodes and
\* whose GPU texture can be created succeeds, whichever loads failed before.
C12_FailedLoadLeavesMaps ==
    Loaded =>
        /\ (~IsSome(tm_call.args.file) \/ ~tm_call.args.gpu_ok)
                /\ tm_call.path \notin DOMAIN tm_call.gpu_before
            => /\ IsErr(tm_call.result)
               /\ tm_call.path \notin DOMAIN cpu_textures
               /\ tm_call.path \notin DOMAIN gpu_textures
               /\ MapsUntouched
        /\ IsErr(tm_call.result) => MapsUntouched
        /\ (IsSome(tm_call.args.file) /\ tm_call.args.gpu_ok)
            => /\ tm_call.result = Ok
               /\ tm_call.path \in DOMAIN cpu_textures
               /\ tm_call.path \in DOMAIN gpu_textures

\* C12 witness: with one texture loaded, the GPU refuses the other path's
\* image; the call fails and the loaded texture stays
C12_Witness ==
    /\ Loaded
    /\ IsErr(tm_call.result)
    /\ IsSome(tm_call.args.file)
    /\ tm_call.succeeded # {}
    /\ tm_call.failed # {}
    /\ DOMAIN cpu_textures = tm_call.succeeded
    /\ MapsUntouched

\* C13: for a path no load_texture has succeeded on, sample_texture returns
\* white and sample_normal_map returns (0, 0, 1), for every u and v.
C13_UnknownPathDefaults ==
    (mode = "textures" /\ tm_call.op \in {"sample_texture", "sample_normal_map"}
                      /\ tm_call.path \notin tm_call.succeeded)
        => tm_call.result = (IF tm_call.op = "sample_texture" THEN One3
                             ELSE Vec(0, 0, FX))

\* C13 witness: a sample, at a NaN coordinate, of a path whose load failed
\* while the other path is loaded
C13_Witness ==
    /\ mode = "textures"
    /\ tm_call.op = "sample_texture"
    /\ tm_call.path \in tm_call.failed
    /\ tm_call.path \notin tm_call.succeeded
    /\ tm_call.succeeded # {}
    /\ IsNaN(tm_call.args.u)
    /\ tm_call.result = One3

---------------------------------------------------------------------------
(* Properties of shading, reflection and refraction *)

\* the pixel main writes for a ray whose trace_ray call, with the one light of
\* a one-light list, returned color
PixelOfOneLight(color, light) ==
    PixelWord(NormalizeOver(Accumulate(Zero3, color, light), 1))

\* one opaque, non-reflective, untextured block lit by one light straight
\* above it and seen from straight above
LambertScenario ==
    /\ Returned
    /\ scene = SceneOne
    /\ Len(lights) = 1
    /\ lights[1].position[1] = 0 /\ lights[1].position[3] = 0
    /\ root.origin[1] = 0 /\ root.origin[3] = 0
    /\ root.dir = Vec(0, -FX, 0)
    /\ root.depth <= max_depth

\* two pixels agree to within two steps of a channel
PixelsAgree(p, q) == \A i \in 1..4 : Abs(p[i] - q[i]) <= 2

HeightAboveTop(light) == RoundDiv((light.position[2] - U \div 2) * FX, U)

RootHit == FindClosestIntersection(root.origin, root.dir, scene).hit

\* a hit on a surface with a material
HitsMaterial(h) == IsSome(h) /\ IsSome(Unwrap(h).material)

\* d - 2 (n . d) n, normalised
MirrorDir(d, n) == Normalized([i \in Axes |-> d[i] - FxMul(2 * n[i], Dot(d, n))])

\* the colour of a ray that meets nothing, or an opaque non-reflective
\* surface: sky, or the clamped direct shading
PlainColor(origin, dir) ==
    LET h == FindClosestIntersection(origin, dir, scene).hit
    IN  IF ~HitsMaterial(h) THEN SkyColor(dir)
        ELSE [i \in Axes |-> FClamp(DirectShading(Unwrap(h), lights, dir)[i], 0, FX)]

\* the ray meets nothing, or an opaque non-reflective surface
IsPlain(origin, dir) ==
    LET h == FindClosestIntersection(origin, dir, scene).hit
    IN  HitsMaterial(h) =>
            /\ Unwrap(Unwrap(h).material).reflectivity = 0
            /\ Unwrap(Unwrap(h).material).transparency = 0

\* the outermost call, with budget left, hit a perfect mirror
MirrorCase ==
    /\ Returned
    /\ root.depth < max_depth
    /\ HitsMaterial(RootHit)
    /\ Unwrap(Unwrap(RootHit).material).reflectivity = FX
    /\ Unwrap(Unwrap(RootHit).material).transparency = 0

\* the origin of the mirror ray: the hit point moved outwards by EPSILON
MirrorOrigin(h) == [i \in Axes |-> h.point[i] + FxMul(h.normal[i], EPSILON)]

\* C15: a hit on a material of reflectivity 1.0 and transparency 0 at
\* depth < max_depth returns the colour traced along the mirror ray; when
\* that ray meets an opaque non-reflective block (or nothing), the result is
\* that block's shaded colour (or the sky).
C15_MirrorShowsReflected ==
    (MirrorCase /\ IsPlain(MirrorOrigin(Unwrap(RootHit)),
                           MirrorDir(root.dir, Unwrap(RootHit).normal)))
        => Unwrap(result) = PlainColor(MirrorOrigin(Unwrap(RootHit)),
                                       MirrorDir(root.dir, Unwrap(RootHit).normal))

\* C15 witness: the mirror shows the lit block it faces
C15_Witness ==
    /\ MirrorCase
    /\ lights # << >>
    /\ HitsMaterial(FindClosestIntersection(MirrorOrigin(Unwrap(RootHit)),
                         MirrorDir(root.dir, Unwrap(RootHit).normal), scene).hit)
    /\ Unwrap(result) = PlainColor(MirrorOrigin(Unwrap(RootHit)),
                                   MirrorDir(root.dir, Unwrap(RootHit).normal))
    /\ Unwrap(result) # Zero3

\* the hits ray_intersect reports for the blocks of a scene
IntersectedBlocks(origin, dir, blocks) ==
    { h \in { BlockRayIntersect(blocks[i], origin, dir, FALSE) : i \in DOMAIN blocks } :
        h.is_intersecting }

\* the blocks of a scene in reverse order
Reversed(blocks) == [i \in DOMAIN blocks |-> blocks[Len(blocks) + 1 - i]]

\* find_closest_intersection returns a hit of least distance
ReturnsMinimum(origin, dir, blocks) ==
    LET hits == IntersectedBlocks(origin, dir, blocks)
        found == FindClosestIntersection(origin, dir, blocks).hit
    IN  hits # {} =>
            /\ IsSome(found)
            /\ \A h \in hits : ~FLt(h.distance, Unwrap(found).distance)

\* the activations that have searched the scene for their ray
Searched == { k \in DOMAIN stack : stack[k].pc # "enter" }

\* C16: whenever a ray intersects at least one block, the hit
\* find_closest_intersection returns has the least distance over all
\* intersected blocks, in every ordering of the scene.
C16_ReturnsMinimum ==
    \A k \in Searched :
        /\ ReturnsMinimum(stack[k].origin, stack[k].dir, scene)
        /\ ReturnsMinimum(stack[k].origin, stack[k].dir, Reversed(scene))

\* refract's discriminant k = 1 - eta^2 (1 - cosi^2) for an incident
\* direction, a normal and a refractive index
Discriminant(incident, normal, refractive_index) ==
    LET c == FClamp(Dot(incident, normal), -FX, FX)
        eta == IF c > 0 THEN FxDiv(refractive_index, FX) ELSE FxDiv(FX, refractive_index)
    IN  FX - FxMul(FxMul(eta, eta), FX - FxMul(c, c))

\* an activation that hit a transparent material with budget left and whose
\* refraction underwent total internal reflection
TotalInternalReflection(f) ==
    /\ f.pc = "combine"
    /\ Unwrap(f.intersect.material).transparency > MIN_TRANSPARENCY_THRESHOLD
    /\ f.depth < max_depth
    /\ Discriminant(f.dir, f.intersect.normal,
                    Unwrap(f.intersect.material).refractive_index) < 0

\* the recursive calls an activation has made when only its reflection ray
\* may have been traced
ReflectionCallsOnly(f) ==
    IF Unwrap(f.intersect.material).reflectivity > MIN_REFLECTION_THRESHOLD THEN 1 ELSE 0

\* C17: under total internal reflection no refraction ray is traced, the
\* refracted contribution is zero, and the Fresnel weight of the final blend
\* is 1.0.
C17_TotalInternalReflection ==
    \A k \in DOMAIN stack :
        TotalInternalReflection(stack[k]) =>
            /\ stack[k].children = ReflectionCallsOnly(stack[k])
            /\ stack[k].refraction_color = Zero3
            /\ BlendWeights(Unwrap(stack[k].intersect.material),
                            stack[k].fresnel_factor).reflected = FX

\* the activations waiting for the refraction ray they sent
AwaitingRefraction == { k \in DOMAIN stack : stack[k].pc = "await_refract" }

\* how far the origin of the refraction ray sent by activation k lies from
\* the hit point along the outward normal of the face: negative inside the
\* block, positive outside
RefractionOffset(k) ==
    Dot(VSub(stack[k + 1].origin, stack[k].intersect.point), stack[k].intersect.normal)

\* C18: the origin of every refraction ray lies on the transmitted side:
\* inside the block when the ray enters it (direction . normal < 0), outside
\* when the ray leaves it (direction . normal > 0).
C18_OriginOnTransmittedSide ==
    \A k \in AwaitingRefraction :
        /\ Dot(stack[k].dir, stack[k].intersect.normal) < 0 => RefractionOffset(k) < 0
        /\ Dot(stack[k].dir, stack[k].intersect.normal) > 0 => RefractionOffset(k) > 0

\* an activation that hit a purely transparent material with budget left
PurelyTransparent(f) ==
    /\ f.pc \notin {"enter", "reflect"}
    /\ Unwrap(f.intersect.material).transparency > MIN_TRANSPARENCY_THRESHOLD
    /\ Unwrap(f.intersect.material).reflectivity <= MIN_REFLECTION_THRESHOLD
    /\ f.depth < max_depth

\* the recursive calls an activation has made, or is making, by the time it
\* is past its reflection step, when both of its rays are traced
CallsWithReflection(f) ==
    IF f.pc = "refract" THEN 1 ELSE IF f.pc = "await_reflect" THEN 1 ELSE 2

\* C19: a purely transparent material hit at depth < max_depth has a
\* reflection ray traced along the mirror direction, whose colour is
\* weighted by the Fresnel factor, next to the refracted colour weighted by
\* transparency * (1 - Fresnel).
C19_TransparentReflects ==
    \A k \in DOMAIN stack :
        PurelyTransparent(stack[k]) =>
            /\ (RefractionValid(RefractedDir(stack[k].dir, stack[k].intersect))
                    => stack[k].children = CallsWithReflection(stack[k]))
            /\ stack[k].pc = "combine" =>
                   LET w == BlendWeights(Unwrap(stack[k].intersect.material),
                                         stack[k].fresnel_factor)
                   IN  /\ w.reflected = stack[k].fresnel_factor
                       /\ w.refracted =
                              FxMul(Unwrap(stack[k].intersect.material).transparency,
                                    FX - stack[k].fresnel_factor)

\* an activation about to blend whose hit is at depth = max_depth
BottomedOut(f) == f.pc = "combine" /\ f.depth = max_depth

\* C20: when the recursion bottoms out on a reflective or transparent
\* surface, the reflected or refracted colour that is blended is the sky
\* colour of the continuation direction, not black.
C20_BottomIsSky ==
    \A k \in DOMAIN stack :
        BottomedOut(stack[k]) =>
            LET f == stack[k]
                material == Unwrap(f.intersect.material)
            IN  /\ material.reflectivity > MIN_REFLECTION_THRESHOLD
                       => f.reflection_color = SkyColor(ReflectedDir(f.dir, f.intersect))
                /\ (/\ material.transparency > MIN_TRANSPARENCY_THRESHOLD
                    /\ RefractionValid(RefractedDir(f.dir, f.intersect)))
                       => f.refraction_color = SkyColor(RefractedDir(f.dir, f.intersect))

\* the outermost ray, within budget, hit the one block of a one-block scene
\* and that block carries an emissive source
EmissiveCase ==
    /\ Returned
    /\ root.depth <= max_depth
    /\ Len(scene) = 1
    /\ IsSome(scene[1].emission)
    /\ HitsMaterial(RootHit)

\* C21: the emissive colour of the block that is hit, scaled by its
\* strength, is added to the direct shading of the hit.
C21_EmissionAdded ==
    EmissiveCase =>
        Unwrap(result) =
            [i \in Axes |->
                FClamp(DirectShading(Unwrap(RootHit), lights, root.dir)[i]
                       + FxMul(Unwrap(scene[1].emission).color[i],
                               Unwrap(scene[1].emission).intensity), 0, FX)]

\* two colours equal up to the rounding of one addition per channel
ColorsAgree(a, b) == \A i \in Axes : Abs(a[i] - b[i]) <= 1

\* the contribution of light i to the hit of an activation
ContributionOf(f, i) ==
    CalculateLightContribution(f.intersect, lights[i], GetMaterialColor(f.intersect), f.dir)

\* the per-light contributions of an activation's hit, added up channel by
\* channel
RECURSIVE ChannelSum(_, _, _)
ChannelSum(f, axis, i) ==
    IF i > Len(lights) THEN 0 ELSE ContributionOf(f, i)[axis] + ChannelSum(f, axis, i + 1)

\* C22: the direct shading of a hit is the sum of the per-light
\* contributions divided by the number of lights, plus the ambient term;
\* duplicating every light leaves it unchanged; with no lights it is the
\* ambient term alone.
C22_AverageOfLights ==
    \A k \in Searched :
        LET f == stack[k]
            ambient == [i \in Axes |-> RoundDiv(GetMaterialColor(f.intersect)[i], 10)]
        IN  /\ lights # << >> =>
                   f.final_color =
                       [i \in Axes |->
                           RoundDiv(ChannelSum(f, i, 1), Len(lights)) + ambient[i]]
            /\ ColorsAgree(DirectShading(f.intersect, lights \o lights, f.dir),
                           f.final_color)
            /\ lights = << >> => f.final_color = ambient

\* C22 witness: a hit lit by two lights of which at least one reaches it
C22_Witness ==
    \E k \in Searched :
        /\ Len(lights) = 2
        /\ \E i \in Axes : ChannelSum(stack[k], i, 1) > 2
        /\ ContributionOf(stack[k], 1) # ContributionOf(stack[k], 2)

---------------------------------------------------------------------------
(* Further properties of Block::ray_intersect *)

\* the ray is parallel to the pair of planes of axis i: |dir[i]| <= 1e-8
ParallelTo(i) == ~DirBig(ray.dir[i], ray.tiny)

\* the origin's coordinate on axis i is outside the slab [min, max]
OutsideSlab(i) ==
    ray.origin[i] < BlockMin(blk)[i] \/ ray.origin[i] > BlockMax(blk)[i]

\* a hit whose distance is a non-negative finite number
ValidHit(h) == h.is_intersecting => (IsFinite(h.distance) /\ FGe(h.distance, 0))

\* C23: for a ray parallel to the planes of an axis, ray_intersect reports
\* no hit when the origin is outside that axis's slab, and no invalid hit
\* results, whichever axis is the parallel one.
C23_ParallelRays ==
    Called =>
        \A i \in Axes :
            ParallelTo(i) =>
                /\ OutsideSlab(i) => ~Returned_hit.is_intersecting
                /\ ValidHit(Returned_hit)

\* the six faces in the order of the face test: -X, +X, -Y, +Y, -Z, +Z
FaceOrder == << <<1, -1>>, <<1, 1>>, <<2, -1>>, <<2, 1>>, <<3, -1>>, <<3, 1>> >>

\* the hit point is within the tolerance of the plane of face n of FaceOrder
OnFacePlane(h, n) ==
    LET i == FaceOrder[n][1]
        plane == IF FaceOrder[n][2] < 0 THEN BlockMin(blk)[i] ELSE BlockMax(blk)[i]
    IN  IsFinite(h.point[i]) /\ Abs(h.point[i] - plane) < FaceEpsilon

\* C24: every hit carries one of the six axis-aligned unit normals, never
\* the zero vector, and on an edge or corner it is the normal of the first
\* matching face in the order -X, +X, -Y, +Y, -Z, +Z.
C24_AxisAlignedNormal ==
    (Called /\ Returned_hit.is_intersecting) =>
        /\ \E n \in DOMAIN FaceOrder :
               Returned_hit.normal = OutwardNormal(FaceOrder[n][1], FaceOrder[n][2])
        /\ \A n \in DOMAIN FaceOrder :
               (OnFacePlane(Returned_hit, n)
                /\ \A m \in 1..(n - 1) : ~OnFacePlane(Returned_hit, m))
                   => Returned_hit.normal =
                          OutwardNormal(FaceOrder[n][1], FaceOrder[n][2])

---------------------------------------------------------------------------
(* Properties of CpuTexture::sample_bilinear *)

\* sample_texture has just been called on a path that is loaded
SampledLoaded ==
    /\ mode = "textures"
    /\ tm_call.op = "sample_texture"
    /\ tm_call.path \in DOMAIN cpu_textures

\* the texture sampled by the last call
SampledTexture == cpu_textures[tm_call.path]

\* the FX-scaled texel coordinate of a texture coordinate; `NaN as i32` is 0
TexelCoordinate(u, size) == IF IsNaN(u) THEN 0 ELSE FClamp(u, 0, FX) * (size - 1)

\* the corners the last call read
CornersRead ==
    Corners(SampledTexture, TexelCoordinate(tm_call.args.u, SampledTexture.width),
            TexelCoordinate(tm_call.args.v, SampledTexture.height))

\* the texel indices of the four corners are within the texture
CornersInRange ==
    /\ CornersRead.x0 \in 0..(SampledTexture.width - 1)
    /\ CornersRead.x1 \in 0..(SampledTexture.width - 1)
    /\ CornersRead.y0 \in 0..(SampledTexture.height - 1)
    /\ CornersRead.y1 \in 0..(SampledTexture.height - 1)
    /\ \A x \in {CornersRead.x0, CornersRead.x1}, y \in {CornersRead.y0, CornersRead.y1} :
           y * SampledTexture.width + x + 1 \in DOMAIN SampledTexture.pixels

\* sampling at (0,0) and at (1,1) returns the first and the last texel
ExtremeCornersExact ==
    /\ (tm_call.args.u = 0 /\ tm_call.args.v = 0)
           => tm_call.result = SampledTexture.pixels[1]
    /\ (tm_call.args.u = FX /\ tm_call.args.v = FX)
           => tm_call.result =
                  SampledTexture.pixels[SampledTexture.width * SampledTexture.height]

\* the coordinate after `clamp(0.0, 1.0)` lies in [0, 1]
ClampedToUnit(u) == FGe(FClamp(u, 0, FX), 0) /\ FGe(FX, FClamp(u, 0, FX))

---------------------------------------------------------------------------
(* Properties of Camera *)

\* C26: is_changed returns true exactly when the camera was created or
\* modified (new, update_basis, orbit, zoom) since the previous is_changed
\* call, and resets the flag; two is_changed calls in a row return (x, false);
\* orbit and zoom never modify center.
C26_IsChangedTracksModification ==
    /\ cam_call.op = "is_changed" =>
           /\ cam_call.result = << cam_call.modified_before >>
           /\ orbit_cam.changed = FALSE
           /\ cam_call.prev_op = "is_changed" => cam_call.result = << FALSE >>
           /\ cam_call.prev_op \in {"new", "update_basis", "orbit", "zoom"}
                  => cam_call.result = << TRUE >>
    /\ cam_call.op \in {"orbit", "zoom"} => orbit_cam.center = cam_call.center_before

\* C26 witness: an is_changed call that returned true right after an orbit
\* that moved the eye
C26_Witness ==
    /\ mode = "camera"
    /\ cam_call.op = "is_changed"
    /\ cam_call.prev_op = "orbit"
    /\ cam_call.result = << TRUE >>
    /\ cam_call.ops >= 2
    /\ orbit_cam.eye \notin CameraEyes
    /\ IsFinite(orbit_cam.eye[1])
    /\ orbit_cam.forward # Zero3

---------------------------------------------------------------------------
(* Further properties of the TextureManager *)

\* C27: after any sequence of successful and failed load_texture calls the
\* CPU map and the GPU map have the same keys, so a path load_texture finds
\* in the GPU map can be sampled from the CPU map.
C27_MapsShareKeys ==
    mode = "textures" =>
        /\ DOMAIN cpu_textures = DOMAIN gpu_textures
        /\ (Loaded /\ tm_call.path \in DOMAIN tm_call.gpu_before)
               => tm_call.path \in DOMAIN cpu_textures

\* C27 witness: a load answered from the GPU map, after a load that failed
\* and with both paths loaded
C27_Witness ==
    /\ Loaded
    /\ tm_call.path \in DOMAIN tm_call.gpu_before
    /\ tm_call.decode_calls = 0
    /\ tm_call.failed # {}
    /\ DOMAIN cpu_textures = TexturePaths
    /\ DOMAIN gpu_textures = TexturePaths

---------------------------------------------------------------------------
(* Properties of replace_block *)

\* the indices of the blocks of a list at a position
IndicesAt(list, pos) == { i \in DOMAIN list : list[i].position = pos }

\* no two blocks of a list share a position
PairwiseDistinct(list) ==
    \A i, j \in DOMAIN list : list[i].position = list[j].position => i = j

\* the blocks of a list that are not at a position, in their order
RECURSIVE Elsewhere(_, _)
Elsewhere(list, pos) ==
    IF list = << >> THEN << >>
    ELSE IF Head(list).position = pos THEN Elsewhere(Tail(list), pos)
    ELSE << Head(list) >> \o Elsewhere(Tail(list), pos)

\* replace_block has just been called
Replaced == mode = "scene" /\ list_call.op = "replace_block"

\* C28: after replace_block(blocks, b) the list has exactly one block at
\* b's position, namely b as its last element, every other block is kept in
\* its relative order, and a list of pairwise distinct positions stays so.
C28_ReplaceKeepsOnePerPosition ==
    Replaced =>
        /\ IndicesAt(block_list, list_call.block.position) = {Len(block_list)}
        /\ block_list[Len(block_list)] = list_call.block
        /\ SubSeq(block_list, 1, Len(block_list) - 1)
               = Elsewhere(list_call.before, list_call.block.position)
        /\ PairwiseDistinct(list_call.before) => PairwiseDistinct(block_list)

\* C28 witness: a replacement that removed two stacked blocks from between
\* two others
C28_Witness ==
    /\ Replaced
    /\ Cardinality(IndicesAt(list_call.before, list_call.block.position)) = 2
    /\ Len(block_list) = 3
    /\ list_call.before[1].position # list_call.block.position
    /\ list_call.before[4].position # list_call.block.position

---------------------------------------------------------------------------
(* Properties of Framebuffer::draw_line_fast and set_pixel_fast *)

\* draw_line_fast has been called
LineCalled == mode = "line" /\ bresenham.pc \in {"loop", "done", "panicked"}

\* the pixels of the buffer that no longer have the background colour
Coloured == { i \in DOMAIN pixel_buffer : pixel_buffer[i] # Background }

\* the buffer indices of the pixels the line has plotted
WrittenIndices == { w[2] * LineW + w[1] + 1 : w \in bresenham.written }

\* C29: for any integer endpoints draw_line_fast ends by reaching the end
\* point (never by an abort), writes only pixels inside the frame, and colours
\* both endpoints when they lie inside it; set_pixel_fast with x >= width or
\* y >= height leaves the buffer unchanged.
C29_LineStaysInFrame ==
    /\ LineCalled =>
          /\ bresenham.pc # "panicked"
          /\ \A w \in bresenham.written : InFrame(w[1], w[2])
          /\ DOMAIN pixel_buffer = 1 .. LineW * LineH
          /\ Coloured = WrittenIndices
          /\ bresenham.pc = "done" =>
                /\ bresenham.x0 = bresenham.x1 /\ bresenham.y0 = bresenham.y1
                /\ \A e \in { bresenham.from, bresenham.to } :
                      InFrame(e[1], e[2]) => e \in bresenham.written
    /\ (mode = "line" /\ bresenham.pc = "set"
            /\ (bresenham.x >= LineW \/ bresenham.y >= LineH))
          => pixel_buffer = bresenham.before

---------------------------------------------------------------------------
(* Properties of handle_camera_input *)

\* handle_camera_input has just returned
InputHandled == mode = "events" /\ ev_call.op = "handle_camera_input"

\* the pitch limit and the rotation speed of the version that was called
LimitOf(call) == IF call.version = "main" THEN PITCH_LIMIT ELSE EV_PITCH_LIMIT
RotationOf(call) ==
    IF call.version = "events" THEN EV_ROT_SPEED
    ELSE IF "SHIFT" \in call.keys THEN ROTATION_SPEED_SHIFT ELSE ROTATION_SPEED

\* 1 when the key was held during the call, else 0
Held(call, key) == IF key \in call.keys THEN 1 ELSE 0

\* C30: after every call of handle_camera_input, whatever the camera was
\* before and whichever keys are held, the pitch lies within the version's
\* limit (1.4 in main.rs, pi/2 - 0.1 in events.rs), so the view direction is
\* never parallel to the world up axis; the yaw is moved by the rotation keys
\* without any bound.
C30_PitchWithinLimit ==
    InputHandled =>
        /\ ev_camera.pitch >= -LimitOf(ev_call)
        /\ ev_camera.pitch <= LimitOf(ev_call)
        /\ Cos(ev_camera.pitch) > 0
        /\ ev_camera.yaw = ev_call.before.yaw
               + RotationOf(ev_call) * (Held(ev_call, "RIGHT") - Held(ev_call, "LEFT"))

\* C30 witness: the second frame in a row with UP held, which stopped the
\* pitch at the limit, while the yaw has gone past that limit
C30_Witness ==
    /\ InputHandled
    /\ ev_call.frames = 2
    /\ "UP" \in ev_call.keys /\ "DOWN" \notin ev_call.keys
    /\ ev_call.before.pitch + RotationOf(ev_call) > LimitOf(ev_call)
    /\ ev_call.before.pitch < LimitOf(ev_call)
    /\ ev_camera.pitch = LimitOf(ev_call)
    /\ ev_camera.yaw > LimitOf(ev_call) + EV_ROT_SPEED

=============================================================================
